---- MODULE Spec2Model ----
(***************************************************************************)
(* ArcLikeExtension background core (src/src/background.ts): the activity  *)
(* ledger tabLastActiveTimes, the chrome.alarms archive timers, the        *)
(* eligibility test, startArchiveTimer / cancelArchiveTimer / archiveTab,  *)
(* initialTabScan, sortTabsInWindow and the event handlers.                *)
(*                                                                         *)
(* Every handler is an async function.  A handler invocation in flight is  *)
(* an entry of `tasks`: the frames it still has to run.  One Resume step   *)
(* runs a handler from the await it is suspended at, through all the       *)
(* synchronous code that follows, up to and including the next chrome.*    *)
(* call (whose effect on the browser / the alarm store happens in that     *)
(* step); then the handler is suspended again and any other handler, any   *)
(* browser event and the clock may take steps.                             *)
(***************************************************************************)
EXTENDS Integers, Sequences, FiniteSets, TLC

\* ----------------------------------------------------------------- bounds
NTabs == 2
NWindows == 2
MaxTicks == 1
MaxEvents == 1
MaxLocks == 5
MaxRaceLocks == 1
MaxInFlight == 2
MaxId == 12
NSortTabs == 4
NSortGroups == 2
MaxSortLocks == 2
MaxDragLocks == 101
NDragTabs == 3
\* The failures of chrome.alarms.clear in a run that allows for them.
MaxFaults == 1

\* -------------------------------------------------------- program constants
TAB_ID_NONE == -1
TAB_GROUP_ID_NONE == -1
WINDOW_ID_NONE == -1
\* A variant of MAX_RETRIES that allows one attempt more.
MAX_RETRIES_AND_ONE == 5 + 1
MAX_RETRIES == 5
RETRY_DELAY_MS == 1000
MAX_MOVE_RETRIES == 100
MOVE_RETRY_DELAY_MS == 100
ARCHIVE_ALARM_PREFIX == "archiveTimer_tab_"
SETTINGS_KEY == "arcLikeExtensionSettings"

DefaultSettings ==
    [autoArchiveEnabled |-> TRUE, archiveTimeValue |-> 12, archiveTimeUnit |-> "hours",
     archiveInIncognito |-> FALSE, tabSortingEnabled |-> TRUE]

\* ------------------------------------------------------------ model domains
Tabs == 1..NTabs
Windows == 1..NWindows
\* The clock advances in ticks of five minutes.
TickMs == 5 * 60 * 1000
MaxNow == MaxTicks * TickMs
\* The window with the largest id is an incognito window.
IncognitoWindows == {NWindows}
\* The one tab group of window w.
GroupOf(w) == w

\* The Settings values the Settings Store may hold.
FiveMinutes == [DefaultSettings EXCEPT !.archiveTimeValue = 5, !.archiveTimeUnit = "minutes"]
SwitchedOff == [DefaultSettings EXCEPT !.autoArchiveEnabled = FALSE, !.tabSortingEnabled = FALSE]
SettingsChoices == {DefaultSettings, FiveMinutes, SwitchedOff}

VARIABLES
    tabs,                \* browser: tab id -> [status, windowId, pinned, groupId]
    order,               \* browser: window id -> the window's tab ids, by position
    active,              \* browser: window id -> its active tab, or TAB_ID_NONE
    focused,             \* browser: the focused window, or WINDOW_ID_NONE
    currentSettings,     \* background.ts: currentSettings
    tabLastActiveTimes,  \* background.ts: tabLastActiveTimes (a Map: a function on the ids it holds)
    alarms,              \* chrome.alarms: the outstanding alarms [name, scheduledTime]
    now,                 \* Date.now(), in ms
    tasks,               \* handler invocations in flight, in the order their events arrived
    obs,                 \* what the last step did: the chrome.* call issued, the function that returned
    budget               \* how many events / transient-lock errors the environment may still produce

vars == <<tabs, order, active, focused, currentSettings, tabLastActiveTimes, alarms,
          now, tasks, obs, budget>>

\* ------------------------------------------------------------------ helpers
Max(a, b) == IF a >= b THEN a ELSE b
Min(a, b) == IF a <= b THEN a ELSE b

RECURSIVE SeqWithout(_, _)
SeqWithout(s, x) ==
    IF s = <<>> THEN <<>>
    ELSE IF Head(s) = x THEN SeqWithout(Tail(s), x)
         ELSE <<Head(s)>> \o SeqWithout(Tail(s), x)

\* s with x inserted so that x gets 0-based index i (clamped to the end).
InsertAt(s, i, x) ==
    LET k == Min(Max(i, 0), Len(s))
    IN  SubSeq(s, 1, k) \o <<x>> \o SubSeq(s, k + 1, Len(s))

\* 0-based position of x in s (x occurs in s).
IndexIn(s, x) == (CHOOSE i \in 1..Len(s) : s[i] = x) - 1

RECURSIVE Flatten(_)
Flatten(ss) == IF ss = <<>> THEN <<>> ELSE Head(ss) \o Flatten(Tail(ss))

\* ------------------------------------------------------- alarm names (l.39-41)
Digit(d) == CASE d = 0 -> "0" [] d = 1 -> "1" [] d = 2 -> "2" [] d = 3 -> "3" [] d = 4 -> "4"
              [] d = 5 -> "5" [] d = 6 -> "6" [] d = 7 -> "7" [] d = 8 -> "8" [] d = 9 -> "9"

DigitValue(c) == CASE c = "0" -> 0 [] c = "1" -> 1 [] c = "2" -> 2 [] c = "3" -> 3 [] c = "4" -> 4
                   [] c = "5" -> 5 [] c = "6" -> 6 [] c = "7" -> 7 [] c = "8" -> 8 [] c = "9" -> 9
                   [] OTHER -> -1

\* Number -> string conversion of a template literal: the decimal digits, "-" first when negative.
RECURSIVE NatDigits(_)
NatDigits(n) == IF n < 10 THEN <<Digit(n)>> ELSE NatDigits(n \div 10) \o <<Digit(n % 10)>>

\* A variant of NumberToString that leaves out the sign.
NumberToStringUnsigned(n) == IF n < 0 THEN NatDigits(0 - n) ELSE NatDigits(n)

NumberToString(n) == IF n < 0 THEN <<"-">> \o NatDigits(0 - n) ELSE NatDigits(n)

\* A name is the prefix followed by the characters of the id.
getAlarmName(tabId) == <<ARCHIVE_ALARM_PREFIX>> \o NumberToString(tabId)

startsWithPrefix(name) == Len(name) >= 1 /\ name[1] = ARCHIVE_ALARM_PREFIX

\* parseInt(str, 10): optional sign, then the longest run of digits; NaN (here "NaN") if none.
RECURSIVE ParseDigits(_, _, _)
ParseDigits(s, acc, any) ==
    IF s = <<>> \/ DigitValue(Head(s)) < 0
    THEN [value |-> acc, any |-> any]
    ELSE ParseDigits(Tail(s), acc * 10 + DigitValue(Head(s)), TRUE)

parseInt(s) ==
    LET neg  == s # <<>> /\ Head(s) = "-"
        body == IF s # <<>> /\ Head(s) \in {"-", "+"} THEN Tail(s) ELSE s
        p    == ParseDigits(body, 0, FALSE)
    IN  [isNaN |-> ~p.any, value |-> IF neg THEN 0 - p.value ELSE p.value]

\* -------------------------------------------------------------- tab objects
\* "no tab object": the optional parameter not given, or null.
NoTab ==
    [id |-> TAB_ID_NONE, windowId |-> WINDOW_ID_NONE, pinned |-> FALSE,
     groupId |-> TAB_GROUP_ID_NONE, incognito |-> FALSE, index |-> -1, active |-> FALSE]

IsOpen(b, t) == t \in DOMAIN b.tabs /\ b.tabs[t].status = "open"

\* The chrome.tabs.Tab object the browser hands out for open tab t.
TabView(b, t) ==
    LET w == b.tabs[t].windowId
    IN  [id |-> t, windowId |-> w, pinned |-> b.tabs[t].pinned, groupId |-> b.tabs[t].groupId,
         incognito |-> w \in IncognitoWindows, index |-> IndexIn(b.order[w], t),
         active |-> b.active[w] = t]

\* The tab objects of window w, by position.
WindowTabs(b, w) == [i \in 1..Len(b.order[w]) |-> TabView(b, b.order[w][i])]

\* The truth at this moment: tab t is the active tab of the focused window.
EffectivelyActiveNow(b, t) ==
    IsOpen(b, t) /\ b.active[b.tabs[t].windowId] = t /\ b.focused = b.tabs[t].windowId

\* ------------------------------------------------------------- the ledger
LedgerHas(l, id) == id \in DOMAIN l
LedgerSet(l, id, t) == [x \in DOMAIN l \cup {id} |-> IF x = id THEN t ELSE l[x]]
LedgerDelete(l, id) == [x \in DOMAIN l \ {id} |-> l[x]]

\* --------------------------------------------------- isTabArchivable (l.80-115)
archiveThresholdMs(settings) ==
    settings.archiveTimeValue *
        (IF settings.archiveTimeUnit = "minutes" THEN 60 * 1000 ELSE 60 * 60 * 1000)

\* A variant of isTabArchivable that takes a missing timestamp for time 0.
isTabArchivableMissingIsZero(tab, hasTime, lastActiveTime, settings, tabIsEffectivelyActive, dateNow) ==
    IF ~settings.autoArchiveEnabled THEN FALSE
    ELSE IF tab.pinned THEN FALSE
    ELSE IF tab.groupId # TAB_GROUP_ID_NONE /\ tab.groupId # -1 THEN FALSE
    ELSE IF tab.incognito /\ ~settings.archiveInIncognito THEN FALSE
    ELSE IF tabIsEffectivelyActive THEN FALSE
    ELSE (dateNow - (IF hasTime THEN lastActiveTime ELSE 0)) >= archiveThresholdMs(settings)

\* A variant of isTabArchivable without the test for pinned tabs.
isTabArchivableIgnoresPinned(tab, hasTime, lastActiveTime, settings, tabIsEffectivelyActive, dateNow) ==
    IF ~settings.autoArchiveEnabled THEN FALSE
    ELSE IF tab.groupId # TAB_GROUP_ID_NONE /\ tab.groupId # -1 THEN FALSE
    ELSE IF tab.incognito /\ ~settings.archiveInIncognito THEN FALSE
    ELSE IF tabIsEffectivelyActive THEN FALSE
    ELSE IF ~hasTime THEN FALSE
    ELSE (dateNow - lastActiveTime) >= archiveThresholdMs(settings)

\* A variant of isTabArchivable that answers true for a tab without timestamp.
isTabArchivableUntrackedIsDue(tab, hasTime, lastActiveTime, settings, tabIsEffectivelyActive, dateNow) ==
    IF ~settings.autoArchiveEnabled THEN FALSE
    ELSE IF tab.pinned THEN FALSE
    ELSE IF tab.groupId # TAB_GROUP_ID_NONE /\ tab.groupId # -1 THEN FALSE
    ELSE IF tab.incognito /\ ~settings.archiveInIncognito THEN FALSE
    ELSE IF tabIsEffectivelyActive THEN FALSE
    ELSE IF ~hasTime THEN TRUE
    ELSE (dateNow - lastActiveTime) >= archiveThresholdMs(settings)

\* A variant of isTabArchivable that wants the inactive time to exceed the threshold.
isTabArchivableStrictlyOlder(tab, hasTime, lastActiveTime, settings, tabIsEffectivelyActive, dateNow) ==
    IF ~settings.autoArchiveEnabled THEN FALSE
    ELSE IF tab.pinned THEN FALSE
    ELSE IF tab.groupId # TAB_GROUP_ID_NONE /\ tab.groupId # -1 THEN FALSE
    ELSE IF tab.incognito /\ ~settings.archiveInIncognito THEN FALSE
    ELSE IF tabIsEffectivelyActive THEN FALSE
    ELSE IF ~hasTime THEN FALSE
    ELSE (dateNow - lastActiveTime) > archiveThresholdMs(settings)

\* A variant of isTabArchivable without the test for tabs in a group.
isTabArchivableIgnoresGroup(tab, hasTime, lastActiveTime, settings, tabIsEffectivelyActive, dateNow) ==
    IF ~settings.autoArchiveEnabled THEN FALSE
    ELSE IF tab.pinned THEN FALSE
    ELSE IF tab.incognito /\ ~settings.archiveInIncognito THEN FALSE
    ELSE IF tabIsEffectivelyActive THEN FALSE
    ELSE IF ~hasTime THEN FALSE
    ELSE (dateNow - lastActiveTime) >= archiveThresholdMs(settings)

\* hasTime = FALSE stands for lastActiveTime === undefined.
isTabArchivable(tab, hasTime, lastActiveTime, settings, tabIsEffectivelyActive, dateNow) ==
    IF ~settings.autoArchiveEnabled THEN FALSE
    ELSE IF tab.pinned THEN FALSE
    ELSE IF tab.groupId # TAB_GROUP_ID_NONE /\ tab.groupId # -1 THEN FALSE
    ELSE IF tab.incognito /\ ~settings.archiveInIncognito THEN FALSE
    ELSE IF tabIsEffectivelyActive THEN FALSE
    ELSE IF ~hasTime THEN FALSE
    ELSE (dateNow - lastActiveTime) >= archiveThresholdMs(settings)

\* startArchiveTimer l.160-172: the remaining delay, in ms (delayInMinutes * 60000).
remainingDelayMs(hasTime, lastActiveTime, settings, dateNow) ==
    IF hasTime /\ lastActiveTime # 0
    THEN Max(0, archiveThresholdMs(settings) - (dateNow - lastActiveTime))
    ELSE 0

\* l.175: delayInMinutes < 0.016, with delayInMinutes = delayMs / 60000; that is,
\* delayMs < 0.016 * 60000.
dueImmediately(delayMs) == delayMs < 16 * 60

\* ------------------------------------------------------------ the alarm store
\* The Timer Service: createTimer adds a timer, clearTimer removes every timer of
\* that name.  The store is not assumed to replace a timer of the same name on
\* create, so "one timer per identifier" is decided by the core's clear-then-create.
AlarmsClear(al, name) == {a \in al : a.name # name}
AlarmsCreate(al, name, when) == al \cup {[name |-> name, scheduledTime |-> when]}
AlarmsOf(al, id) == {a \in al : a.name = getAlarmName(id)}

\* ------------------------------------------------------------------ frames
\* A frame is one suspended or pending function activation: the function, the
\* place in it, its parameters and locals.
\* What a function found when it was called: ledger, timers, tab order, clock.
NoSnap == [ledger |-> <<>>, alarms |-> {}, order |-> <<>>, at |-> 0]

Frame(fn, pc) ==
    [fn |-> fn, pc |-> pc, id |-> TAB_ID_NONE, tab |-> NoTab, w |-> WINDOW_ID_NONE,
     eff |-> FALSE, n |-> 0, index |-> -1, mode |-> "", outcome |-> "", list |-> <<>>,
     name |-> <<>>, val |-> DefaultSettings, old |-> DefaultSettings,
     seen |-> <<>>, moves |-> <<>>, snap |-> NoSnap, calls |-> 0]

Touch(id) == [Frame("updateTabLastActiveTime", "entry") EXCEPT !.id = id]
Cancel(id) == [Frame("cancelArchiveTimer", "entry") EXCEPT !.id = id]
Start(id, tab) == [Frame("startArchiveTimer", "entry") EXCEPT !.id = id, !.tab = tab]
\* The call of startArchiveTimer that directly follows another one for the same tab.
StartAgain(id, tab) == [Start(id, tab) EXCEPT !.n = 1]
Archive(id, tab) == [Frame("archiveTab", "entry") EXCEPT !.id = id, !.tab = tab]
Sort(w) == [Frame("sortTabsInWindow", "entry") EXCEPT !.w = w]
\* Two calls of sortTabsInWindow for the same window, one directly after the other.
SortTwice(w) == <<[Sort(w) EXCEPT !.mode = "first"], [Sort(w) EXCEPT !.mode = "again"]>>
Scan == Frame("initialTabScan", "entry")
\* The catch clause of a try block: where an exception thrown by a frame before it
\* is caught; reached without exception, it does nothing.
Catch == Frame("catch", "entry")
\* The call of initialTabScan that re-runs the scan (l.650).
ScanAgain == [Scan EXCEPT !.mode = "again"]

\* ------------------------------------------------------------ observations
NoCall ==
    [fn |-> "", api |-> "", id |-> TAB_ID_NONE, result |-> "", open |-> FALSE, pinned |-> FALSE,
     grouped |-> FALSE, effActive |-> FALSE, hasEntry |-> FALSE, attempt |-> 0, index |-> -1]
NoObs == [call |-> NoCall, ret |-> <<>>]

\* The chrome.* call being issued, with the browser's state at that moment.  attempt
\* (of chrome.tabs.remove) and index (of chrome.tabs.move) are set by these calls.
CallRec(m, fn, api, id, result) ==
    [fn |-> fn, api |-> api, id |-> id, result |-> result, open |-> IsOpen(m, id),
     pinned |-> IsOpen(m, id) /\ m.tabs[id].pinned,
     grouped |-> IsOpen(m, id) /\ m.tabs[id].groupId # TAB_GROUP_ID_NONE,
     effActive |-> EffectivelyActiveNow(m, id),
     hasEntry |-> LedgerHas(m.ledger, id), attempt |-> 0, index |-> -1]

\* A chrome.* call whose only result is success.
Called(m, fn, api, id, r) ==
    [m EXCEPT !.called = TRUE, !.valid = (r = "ok"), !.call = CallRec(m, fn, api, id, "ok")]

\* The activation f returns: how, and what holds for its identifier at that moment;
\* hadTimer, ledgerKept and timersKept compare with f.snap, what startArchiveTimer
\* found at its call.
Ret(m, f, outcome) ==
    [m EXCEPT !.ret = Append(@,
        [fn |-> f.fn, id |-> f.id, outcome |-> outcome, attempts |-> f.n, mode |-> f.mode,
         hasEntry |-> LedgerHas(m.ledger, f.id),
         timers |-> {a.scheduledTime : a \in AlarmsOf(m.alarms, f.id)},
         open |-> IsOpen(m, f.id),
         calls |-> f.calls, hadTimer |-> AlarmsOf(f.snap.alarms, f.id) # {},
         hadEntry |-> LedgerHas(f.snap.ledger, f.id),
         ledgerKept |-> f.snap.ledger = m.ledger, timersKept |-> f.snap.alarms = m.alarms,
         settings |-> m.settings, at |-> m.now])]

Out(m, push, yield) == [m |-> m, push |-> push, yield |-> yield]

\* ------------------------------------------------------- the browser's side
\* A handler invocation the browser dispatches.
Task(h, frames) == [h |-> h, agenda |-> frames]

OnRemoved(t, w) ==
    Task("handleTabRemoved", <<[Frame("handleTabRemoved", "entry") EXCEPT !.id = t, !.w = w]>>)
OnActivated(t, w) ==
    Task("handleTabActivated", <<[Frame("handleTabActivated", "entry") EXCEPT !.id = t, !.w = w]>>)
OnMoved(t, w) ==
    Task("handleTabMoved", <<[Frame("handleTabMoved", "entry") EXCEPT !.id = t, !.w = w]>>)

\* The tab the browser activates when the active tab at 0-based position i leaves
\* a window whose remaining tabs are rest: the tab now at i, else the last one.
NextActive(rest, i) ==
    IF rest = <<>> THEN TAB_ID_NONE
    ELSE IF i + 1 <= Len(rest) THEN rest[i + 1] ELSE rest[Len(rest)]

\* Open tab t is closed (chrome.tabs.remove, or the user): onRemoved fires, and
\* onActivated for the tab that becomes active in its place.
BrowserRemove(m, t) ==
    LET w     == m.tabs[t].windowId
        i     == IndexIn(m.order[w], t)
        rest  == SeqWithout(m.order[w], t)
        wasAc == m.active[w] = t
        newAc == IF wasAc THEN NextActive(rest, i) ELSE m.active[w]
    IN  [m EXCEPT !.tabs[t].status = "closed",
                  !.order[w] = rest,
                  !.active[w] = newAc,
                  !.spawn = @ \o <<OnRemoved(t, w)>> \o
                            (IF wasAc /\ newAc # TAB_ID_NONE THEN <<OnActivated(newAc, w)>>
                             ELSE <<>>)]

\* Open tab t is moved to 0-based position index of its window (clamped to the
\* end); onMoved fires when its position changed.
BrowserMove(m, t, index) ==
    LET w   == m.tabs[t].windowId
        new == InsertAt(SeqWithout(m.order[w], t), index, t)
    IN  [m EXCEPT !.order[w] = new,
                  !.spawn = @ \o (IF new # m.order[w] THEN <<OnMoved(t, w)>> ELSE <<>>)]

\* --------------------------------------- updateTabLastActiveTime (l.47-51)
updateTabLastActiveTime(m, f) ==
    IF f.id = TAB_ID_NONE THEN Out(m, <<>>, FALSE)
    ELSE Out([m EXCEPT !.ledger = LedgerSet(@, f.id, m.now)], <<>>, FALSE)

\* ----------------------------------------- isTabEffectivelyActive (l.59-70)
\* Continues frame f at pc `next` with f.eff set: without a call when the tab
\* object is not active, else after chrome.windows.get (a missing window: false).
isTabEffectivelyActive(m, f, r, next) ==
    IF ~f.tab.active
    THEN Out(m, <<[f EXCEPT !.pc = next, !.eff = FALSE]>>, FALSE)
    ELSE Out(Called(m, f.fn, "windows.get", f.tab.id, r),
             <<[f EXCEPT !.pc = next, !.calls = @ + 1,
                         !.eff = (f.tab.windowId \in Windows /\ m.focused = f.tab.windowId)]>>,
             TRUE)

\* await chrome.alarms.clear(name) in function fn: the alarm is cleared; or, in a run
\* that allows for m.faults failures of the alarm store, the call is rejected and
\* the exception leaves fn.
alarmsClear(m, fn, id, name, r) ==
    IF r = "error" /\ m.faults > 0
    THEN [m EXCEPT !.called = TRUE, !.valid = TRUE, !.faults = @ - 1, !.thrown = TRUE,
                   !.call = CallRec(m, fn, "alarms.clear", id, "error")]
    ELSE Called([m EXCEPT !.alarms = AlarmsClear(@, name)], fn, "alarms.clear", id, r)

\* ----------------------------------------------- cancelArchiveTimer (l.194-198)
cancelArchiveTimer(m, f, r) ==
    IF f.id = TAB_ID_NONE THEN Out(m, <<>>, FALSE)
    ELSE Out(alarmsClear(m, f.fn, f.id, getAlarmName(f.id), r), <<>>, TRUE)

\* ------------------------------------------------ startArchiveTimer (l.122-188)
\* A variant of armPlan that arms every tab that is eligible apart from its inactive
\* time, with the full threshold as the delay.
armPlanFullThreshold(tab, hasTime, lastActiveTime, settings, dateNow) ==
    IF isTabArchivable(tab, hasTime, dateNow - archiveThresholdMs(settings), settings, FALSE, dateNow)
    THEN [what |-> "create", delayMs |-> archiveThresholdMs(settings)]
    ELSE [what |-> "none", delayMs |-> 0]

\* l.157-187: the tab is not effectively active.  What the function does with it:
\* "archive" (call archiveTab now), "create" (create the alarm with delayMs) or "none".
armPlan(tab, hasTime, lastActiveTime, settings, dateNow) ==
    IF isTabArchivable(tab, hasTime, lastActiveTime, settings, FALSE, dateNow)
    THEN LET delayMs == remainingDelayMs(hasTime, lastActiveTime, settings, dateNow)
         IN  [what |-> IF dueImmediately(delayMs) THEN "archive" ELSE "create",
              delayMs |-> delayMs]
    ELSE [what |-> "none", delayMs |-> 0]

\* A variant of armSkipped that does not look at the auto-archive switch.
armSkippedForSentinelOnly(settings, tabId) ==
    tabId = TAB_ID_NONE

\* l.123-130: the call does nothing at all.
armSkipped(settings, tabId) ==
    ~settings.autoArchiveEnabled \/ tabId = TAB_ID_NONE

\* f.calls counts the chrome.* calls of this activation, f.snap is what it found.
startArchiveTimer(m, f, r) ==
    CASE f.pc = "entry" ->
           LET f0 == [f EXCEPT !.snap = [ledger |-> m.ledger, alarms |-> m.alarms,
                                         order |-> <<>>, at |-> m.now]]
           IN  IF armSkipped(m.settings, f.id)
               THEN Out(Ret(m, f0, "noop"), <<>>, FALSE)
               ELSE Out(alarmsClear(m, f.fn, f.id, getAlarmName(f.id), r),
                        <<[f0 EXCEPT !.pc = "tabInfo", !.calls = @ + 1]>>, TRUE)
      [] f.pc = "tabInfo" ->
           IF f.tab # NoTab
           THEN Out(m, <<[f EXCEPT !.pc = "active"]>>, FALSE)
           ELSE IF IsOpen(m, f.id)
                THEN Out(Called(m, f.fn, "tabs.get", f.id, r),
                         <<[f EXCEPT !.pc = "active", !.tab = TabView(m, f.id),
                                     !.calls = @ + 1]>>, TRUE)
                ELSE Out(Called(m, f.fn, "tabs.get", f.id, r),
                         <<[f EXCEPT !.pc = "return", !.outcome = "notfound",
                                     !.calls = @ + 1]>>, TRUE)
      [] f.pc = "active" -> isTabEffectivelyActive(m, f, r, "decide")
      [] f.pc = "decide" ->
           IF f.eff
           THEN Out(alarmsClear(m, f.fn, f.id, getAlarmName(f.id), r),
                    <<[f EXCEPT !.pc = "return", !.outcome = "active", !.calls = @ + 1]>>, TRUE)
           ELSE LET has  == LedgerHas(m.ledger, f.id)
                    last == IF has THEN m.ledger[f.id] ELSE 0
                    plan == armPlan(f.tab, has, last, m.settings, m.now)
                    what == plan.what
                IN  CASE what = "archive" ->
                           Out(m, <<Archive(f.id, f.tab),
                                    [f EXCEPT !.pc = "return", !.outcome = "archived"]>>, FALSE)
                      [] what = "create" ->
                           Out(Ret([m EXCEPT !.alarms =
                                       AlarmsCreate(@, getAlarmName(f.id),
                                                    m.now + plan.delayMs)],
                                   [f EXCEPT !.calls = @ + 1], "armed"),
                               <<>>, FALSE)
                      [] OTHER ->
                           Out(Ret(m, f, "ineligible"), <<>>, FALSE)
      [] f.pc = "return" ->
           Out(Ret(m, f, f.outcome), <<>>, FALSE)

\* ------------------------------------------------------- archiveTab (l.206-270)
\* A variant of removeStep that gives up one attempt early.
removeStepGivesUpEarly(r, retries) ==
    IF r = "ok" THEN "done"
    ELSE IF r = "lock" /\ retries < MAX_RETRIES - 2 THEN "retry"
    ELSE "throw"

\* A variant of removeStep that retries after every error.
removeStepRetriesAnyError(r, retries) ==
    IF r = "ok" THEN "done"
    ELSE IF retries < MAX_RETRIES - 1 THEN "retry"
    ELSE "throw"

\* l.230-251, one pass of the loop body: chrome.tabs.remove with result r, and where
\* the loop goes: "done" (break), "retry" (wait RETRY_DELAY_MS, retries++) or "throw".
removeStep(r, retries) ==
    IF r = "ok" THEN "done"
    ELSE IF r = "lock" /\ retries < MAX_RETRIES - 1 THEN "retry"
    ELSE "throw"

\* A variant of archiveCleanup that leaves the ledger as it is.
archiveCleanupKeepsEntry(m, id) ==
    [m EXCEPT !.alarms = AlarmsClear(@, getAlarmName(id))]

\* A variant of archiveCleanup that forgets every tab and clears every alarm.
archiveCleanupForgetsAll(m, id) ==
    [m EXCEPT !.ledger = << >>, !.alarms = {}]

\* l.265-269: the cleanup of the finally block.
archiveCleanup(m, id) ==
    [m EXCEPT !.ledger = LedgerDelete(@, id),
              !.alarms = AlarmsClear(@, getAlarmName(id))]

\* A variant of archiveLookup that goes on to the removal when the lookup fails.
archiveLookupIgnoresMissing(given, found) ==
    IF given THEN [pc |-> "active", mode |-> "given", outcome |-> ""]
    ELSE IF found THEN [pc |-> "active", mode |-> "fetched", outcome |-> ""]
    ELSE [pc |-> "remove", mode |-> "gone", outcome |-> ""]

\* l.213-216, l.262-264: where archiveTab goes from its tab lookup.  given: the
\* caller supplied tabForCheck; found: chrome.tabs.get finds the tab.
archiveLookup(given, found) ==
    IF given THEN [pc |-> "active", mode |-> "given", outcome |-> ""]
    ELSE IF found THEN [pc |-> "active", mode |-> "fetched", outcome |-> ""]
    ELSE [pc |-> "finally", mode |-> "gone", outcome |-> "notfound"]

archiveTab(m, f, r) ==
    CASE f.pc = "entry" ->
           IF f.id = TAB_ID_NONE THEN Out(m, <<>>, FALSE)
           ELSE LET given == f.tab # NoTab
                    found == IsOpen(m, f.id)
                    go    == archiveLookup(given, found)
                    f1    == [f EXCEPT !.pc = go.pc, !.mode = go.mode, !.outcome = go.outcome,
                                       !.tab = IF ~given /\ found THEN TabView(m, f.id) ELSE @]
                IN  IF given THEN Out(m, <<f1>>, FALSE)
                    ELSE Out(Called(m, f.fn, "tabs.get", f.id, r), <<f1>>, TRUE)
      [] f.pc = "active" -> isTabEffectivelyActive(m, f, r, "check")
      [] f.pc = "check" ->
           LET has  == LedgerHas(m.ledger, f.id)
               last == IF has THEN m.ledger[f.id] ELSE 0
           IN  IF isTabArchivable(f.tab, has, last, m.settings, f.eff, m.now)
               THEN Out(m, <<[f EXCEPT !.pc = "remove", !.n = 0]>>, FALSE)
               ELSE Out(m, <<[f EXCEPT !.pc = "finally",
                                       !.outcome = IF has THEN "ineligible" ELSE "untracked"]>>,
                        FALSE)
      [] f.pc = "remove" /\ f.n >= MAX_RETRIES ->
           \* l.230, l.252: the loop ends with retries = MAX_RETRIES.
           Out(m, <<[f EXCEPT !.pc = "finally", !.outcome = "lockExhausted"]>>, FALSE)
      [] f.pc = "remove" /\ f.n < MAX_RETRIES ->
           \* The browser: a tab that is gone gives an error, never a lock.
           LET res  == IF IsOpen(m, f.id) THEN r ELSE "error"
               m1   == [m EXCEPT !.called = TRUE,
                                 !.valid = (res = r) /\ (r = "lock" => m.locks > 0),
                                 !.locks = IF res = "lock" /\ @ > 0 THEN @ - 1 ELSE @,
                                 !.call = [CallRec(m, f.fn, "tabs.remove", f.id, res)
                                             EXCEPT !.attempt = f.n + 1]]
               m2   == IF res = "ok" THEN BrowserRemove(m1, f.id) ELSE m1
               go   == removeStep(res, f.n)
           IN  CASE go = "done" ->
                      Out(m2, <<[f EXCEPT !.pc = "finally", !.outcome = "removed",
                                          !.n = f.n + 1]>>, TRUE)
                 [] go = "retry" ->
                      Out(m2, <<[f EXCEPT !.n = f.n + 1]>>, TRUE)
                 [] OTHER ->
                      Out(m2, <<[f EXCEPT !.pc = "finally", !.n = f.n + 1,
                                          !.outcome = IF res = "lock" THEN "lockExhausted"
                                                      ELSE "error"]>>, TRUE)
      [] f.pc = "finally" ->
           \* From "finally" on f.n is the number of chrome.tabs.remove calls made.
           \* l.267 has run when l.268 fails.
           Out(alarmsClear([archiveCleanup(m, f.id) EXCEPT !.alarms = m.alarms],
                           f.fn, f.id, getAlarmName(f.id), r),
               <<[f EXCEPT !.pc = "return"]>>, TRUE)
      [] f.pc = "return" ->
           Out(Ret(m, f, f.outcome), <<>>, FALSE)

\* ------------------------------------------------ sortTabsInWindow (l.327-415)
IsGrouped(t) == t.groupId # TAB_GROUP_ID_NONE /\ t.groupId # -1
NotPinned(t) == ~t.pinned
NotGrouped(t) == t.groupId = TAB_GROUP_ID_NONE \/ t.groupId = -1

RECURSIVE MaxIndex(_)
MaxIndex(ts) == IF ts = <<>> THEN -1 ELSE Max(Head(ts).index, MaxIndex(Tail(ts)))

\* Array.prototype.sort((a, b) => a.index - b.index): insertion into index order, stable.
RECURSIVE SortByIndex(_)
InsertByIndex(sorted, t) ==
    LET k == Cardinality({i \in 1..Len(sorted) : sorted[i].index <= t.index})
    IN  SubSeq(sorted, 1, k) \o <<t>> \o SubSeq(sorted, k + 1, Len(sorted))
SortByIndex(ts) ==
    IF ts = <<>> THEN <<>>
    ELSE InsertByIndex(SortByIndex(SubSeq(ts, 1, Len(ts) - 1)), ts[Len(ts)])

\* A variant that takes the last grouped tab's own position as the target.
relocationPlanIntoLastSlot(allTabsInWindow) ==
    LET unpinnedTabs   == SelectSeq(allTabsInWindow, NotPinned)
        tabsInGroups   == SelectSeq(unpinnedTabs, IsGrouped)
        nonGroupedTabs == SelectSeq(unpinnedTabs, NotGrouped)
        maxIndexOfGroupedTabs == MaxIndex(tabsInGroups)
        Before(t)      == t.index < maxIndexOfGroupedTabs
    IN  [maxIndex |-> maxIndexOfGroupedTabs - 1,
         toRelocate |-> IF tabsInGroups = <<>> THEN <<>>
                        ELSE SortByIndex(SelectSeq(nonGroupedTabs, Before))]

\* A variant that measures against the last unpinned tab, grouped or not.
relocationPlanBehindLastTab(allTabsInWindow) ==
    LET unpinnedTabs   == SelectSeq(allTabsInWindow, NotPinned)
        nonGroupedTabs == SelectSeq(unpinnedTabs, NotGrouped)
        maxIndexOfGroupedTabs == MaxIndex(unpinnedTabs)
        Before(t)      == t.index < maxIndexOfGroupedTabs
    IN  [maxIndex |-> maxIndexOfGroupedTabs,
         toRelocate |-> SortByIndex(SelectSeq(nonGroupedTabs, Before))]

\* A variant that relocates only the first of the misplaced tabs.
relocationPlanFirstOnly(allTabsInWindow) ==
    LET unpinnedTabs   == SelectSeq(allTabsInWindow, NotPinned)
        tabsInGroups   == SelectSeq(unpinnedTabs, IsGrouped)
        nonGroupedTabs == SelectSeq(unpinnedTabs, NotGrouped)
        maxIndexOfGroupedTabs == MaxIndex(tabsInGroups)
        Before(t)      == t.index < maxIndexOfGroupedTabs
        misplaced      == SortByIndex(SelectSeq(nonGroupedTabs, Before))
    IN  [maxIndex |-> maxIndexOfGroupedTabs,
         toRelocate |-> IF tabsInGroups = <<>> \/ misplaced = <<>> THEN <<>>
                        ELSE <<Head(misplaced)>>]

\* A variant that relocates the misplaced tabs from the last to the first.
relocationPlanLastFirst(allTabsInWindow) ==
    LET unpinnedTabs   == SelectSeq(allTabsInWindow, NotPinned)
        tabsInGroups   == SelectSeq(unpinnedTabs, IsGrouped)
        nonGroupedTabs == SelectSeq(unpinnedTabs, NotGrouped)
        maxIndexOfGroupedTabs == MaxIndex(tabsInGroups)
        Before(t)      == t.index < maxIndexOfGroupedTabs
        misplaced      == SortByIndex(SelectSeq(nonGroupedTabs, Before))
    IN  [maxIndex |-> maxIndexOfGroupedTabs,
         toRelocate |-> IF tabsInGroups = <<>> THEN <<>>
                        ELSE [i \in 1..Len(misplaced) |-> misplaced[Len(misplaced) + 1 - i]]]

\* A variant that relocates every ungrouped tab, wherever it is.
relocationPlanEveryUngrouped(allTabsInWindow) ==
    LET unpinnedTabs   == SelectSeq(allTabsInWindow, NotPinned)
        tabsInGroups   == SelectSeq(unpinnedTabs, IsGrouped)
        nonGroupedTabs == SelectSeq(unpinnedTabs, NotGrouped)
        maxIndexOfGroupedTabs == MaxIndex(tabsInGroups)
    IN  [maxIndex |-> maxIndexOfGroupedTabs,
         toRelocate |-> IF tabsInGroups = <<>> THEN <<>>
                        ELSE SortByIndex(nonGroupedTabs)]

\* l.339-369: from the tabs of the window, the tabs to move (in order) and the
\* largest index of a grouped tab.
relocationPlan(allTabsInWindow) ==
    LET unpinnedTabs   == SelectSeq(allTabsInWindow, NotPinned)
        tabsInGroups   == SelectSeq(unpinnedTabs, IsGrouped)
        nonGroupedTabs == SelectSeq(unpinnedTabs, NotGrouped)
        maxIndexOfGroupedTabs == MaxIndex(tabsInGroups)
        Before(t)      == t.index < maxIndexOfGroupedTabs
    IN  [maxIndex |-> maxIndexOfGroupedTabs,
         toRelocate |-> IF tabsInGroups = <<>> THEN <<>>
                        ELSE SortByIndex(SelectSeq(nonGroupedTabs, Before))]

\* A variant that tries again after any error.
moveStepRetriesAnyError(r, retries) ==
    IF r = "ok" THEN "done"
    ELSE IF retries < MAX_MOVE_RETRIES - 1 THEN "retry"
    ELSE "skip"

\* l.380-409, one pass of the retry loop: "done", "retry" or "skip" (break).
moveStep(r, retries) ==
    IF r = "ok" THEN "done"
    ELSE IF r = "lock" /\ retries < MAX_MOVE_RETRIES - 1 THEN "retry"
    ELSE "skip"

\* sortTabsInWindow returns: the tabs it was given by chrome.tabs.query (seen), the
\* chrome.tabs.move calls it made with their results, and the window as it is now.
SortRet(m, f, outcome) ==
    [m EXCEPT !.ret = Append(@,
        [fn |-> "sortTabsInWindow", id |-> TAB_ID_NONE, w |-> f.w, outcome |-> outcome,
         mode |-> f.mode, seen |-> f.seen, moves |-> f.moves, calls |-> f.calls,
         after |-> IF f.w \in DOMAIN m.order THEN WindowTabs(m, f.w) ELSE <<>>,
         settings |-> m.settings, at |-> m.now])]

\* f.list is what is left of nonGroupedTabsToRelocate, f.index the target index,
\* f.n the retries of the move in progress.  With nothing to relocate (l.336, l.346,
\* l.371) the function does nothing more once chrome.tabs.query has answered: its
\* return is recorded with the query.
sortTabsInWindow(m, f, r) ==
    CASE f.pc = "entry" ->
           IF ~m.settings.tabSortingEnabled THEN Out(SortRet(m, f, "disabled"), <<>>, FALSE)
           ELSE LET all  == IF f.w \in DOMAIN m.order THEN WindowTabs(m, f.w) ELSE <<>>
                    plan == relocationPlan(all)
                    f1   == [f EXCEPT !.pc = "loop", !.seen = all, !.list = plan.toRelocate,
                                      !.index = plan.maxIndex + 1, !.n = 0, !.calls = 1]
                    m1   == Called(m, f.fn, "tabs.query", TAB_ID_NONE, r)
                IN  IF plan.toRelocate = <<>>
                    THEN Out(SortRet(m1, f1, IF all = <<>> THEN "empty"
                                             ELSE IF plan.maxIndex < 0 THEN "nogroups"
                                             ELSE "sorted"),
                             <<>>, TRUE)
                    ELSE Out(m1, <<f1>>, TRUE)
      [] f.pc = "loop" /\ f.list = <<>> ->
           Out(SortRet(m, f, "sorted"), <<>>, FALSE)
      [] f.pc = "loop" /\ f.list # <<>> /\ f.n >= MAX_MOVE_RETRIES ->
           \* l.380: the while loop ends without a move.
           Out(m, <<[f EXCEPT !.list = Tail(@), !.n = 0]>>, FALSE)
      [] f.pc = "loop" /\ f.list # <<>> /\ f.n < MAX_MOVE_RETRIES ->
           LET id  == Head(f.list).id
               res == IF IsOpen(m, id) THEN r ELSE "error"
               m1  == [m EXCEPT !.called = TRUE,
                                !.valid = (res = r) /\ (r = "lock" => m.locks > 0),
                                !.locks = IF res = "lock" /\ @ > 0 THEN @ - 1 ELSE @,
                                !.call = [CallRec(m, f.fn, "tabs.move", id, res)
                                            EXCEPT !.index = f.index]]
               f1  == [f EXCEPT !.moves = Append(@, [id |-> id, index |-> f.index,
                                                     result |-> res]),
                                !.calls = @ + 1]
               go  == moveStep(res, f.n)
           IN  CASE go = "done" ->
                      Out(BrowserMove(m1, id, f.index),
                          <<[f1 EXCEPT !.list = Tail(@), !.n = 0]>>, TRUE)
                 [] go = "retry" -> Out(m1, <<[f1 EXCEPT !.n = f.n + 1]>>, TRUE)
                 [] OTHER -> Out(m1, <<[f1 EXCEPT !.list = Tail(@), !.n = 0]>>, TRUE)

\* -------------------------------------------------- initialTabScan (l.276-319)
AllWindows == [w \in 1..NWindows |-> w]

\* chrome.tabs.query({}): the open tabs, window by window, by position.
AllTabs(m) == Flatten([w \in 1..NWindows |-> WindowTabs(m, w)])

\* A variant that restarts the countdown of every inactive tab it scans.
restartCountdown(ledger, id, t) == LedgerSet(ledger, id, t)

\* l.303-307: an inactive tab scanned for the first time gets the current time as
\* its last-active time; one that has an entry keeps it.
firstScanTime(ledger, id, t) ==
    IF LedgerHas(ledger, id) THEN ledger ELSE LedgerSet(ledger, id, t)

\* initialTabScan returns: ledger, timers and tab order as it leaves them and, for
\* the re-run, as it found them (before).
ScanRet(m, f) ==
    [m EXCEPT !.ret = Append(@,
        [fn |-> "initialTabScan", id |-> TAB_ID_NONE, outcome |-> "scanned", mode |-> f.mode,
         before |-> f.snap, ledger |-> m.ledger, alarms |-> m.alarms, order |-> m.order,
         settings |-> m.settings, at |-> m.now])]

initialTabScan(m, f, r) ==
    CASE f.pc = "entry" ->
           Out(Called(m, f.fn, "tabs.query", TAB_ID_NONE, r),
               <<[f EXCEPT !.pc = "windows", !.list = AllTabs(m),
                           !.snap = IF f.mode = "again"
                                    THEN [ledger |-> m.ledger, alarms |-> m.alarms,
                                          order |-> m.order, at |-> m.now]
                                    ELSE NoSnap]>>, TRUE)
      [] f.pc = "windows" ->
           \* focusedWindowId is undefined when no window is focused.
           LET ScanTab(t) == [Frame("initialTabScan", "tab") EXCEPT
                                 !.id = t.id, !.tab = t,
                                 !.eff = (t.active /\ m.focused # WINDOW_ID_NONE
                                          /\ t.windowId = m.focused)]
           IN  Out(Called(m, f.fn, "windows.getAll", TAB_ID_NONE, r),
                   [j \in 1..Len(f.list) |-> ScanTab(f.list[j])]
                       \o [j \in 1..Len(AllWindows) |-> Sort(AllWindows[j])]
                       \o <<Catch, [f EXCEPT !.pc = "return", !.list = <<>>]>>, TRUE)
      [] f.pc = "return" ->
           Out(ScanRet(m, f), <<>>, FALSE)
      [] f.pc = "tab" ->
           IF f.eff
           THEN Out(m, <<Touch(f.id), Cancel(f.id)>>, FALSE)
           ELSE Out([m EXCEPT !.ledger = firstScanTime(@, f.id, m.now)],
                    <<Start(f.id, f.tab)>>, FALSE)

\* -------------------------------------------------- handlers (l.425-652)
\* handleTabCreated has recorded the time of the new tab (l.431): the ledger as it
\* was before (before) and as it is, whether the tab counted as effectively active,
\* and the functions the handler calls next.
CreatedRet(m, f, rest) ==
    [m EXCEPT !.ret = Append(@,
        [fn |-> "handleTabCreated", id |-> f.tab.id, w |-> f.tab.windowId,
         outcome |-> "touched", eff |-> f.eff, before |-> f.snap, ledger |-> m.ledger,
         next |-> [j \in DOMAIN rest |-> [fn |-> rest[j].fn, id |-> rest[j].id, w |-> rest[j].w]],
         settings |-> m.settings, at |-> m.now])]

handleTabCreated(m, f, r) ==
    CASE f.pc = "entry" -> isTabEffectivelyActive(m, f, r, "classified")
      [] f.pc = "classified" ->
           Out(m, <<Touch(f.tab.id),
                    [f EXCEPT !.pc = "touched",
                              !.snap = [ledger |-> m.ledger, alarms |-> m.alarms,
                                        order |-> <<>>, at |-> m.now]]>>, FALSE)
      [] f.pc = "touched" ->
           LET rest == <<IF f.eff THEN Cancel(f.tab.id) ELSE Start(f.tab.id, f.tab)>>
                       \o (IF f.tab.windowId # WINDOW_ID_NONE THEN <<Sort(f.tab.windowId)>>
                           ELSE <<>>)
           IN  Out(CreatedRet(m, f, rest), rest, FALSE)

\* f.mode is the key changeInfo holds: "groupId", "pinned" or "status" (= "complete").
handleTabUpdated(m, f, r) ==
    CASE f.pc = "entry" -> isTabEffectivelyActive(m, f, r, "classified")
      [] f.pc = "classified" ->
           Out(m, (IF f.eff THEN <<Touch(f.id), Cancel(f.id)>> ELSE <<Start(f.id, f.tab)>>)
                  \o (IF f.mode \in {"groupId", "pinned"} /\ f.tab.windowId # WINDOW_ID_NONE
                      THEN <<Sort(f.tab.windowId)>> ELSE <<>>)
                  \o (IF f.mode = "status" /\ ~f.eff THEN <<StartAgain(f.id, f.tab)>> ELSE <<>>),
               FALSE)

\* A variant that leaves out the last of the inactive tabs.
otherTabsInWindowButLast(allTabsInWindow) ==
    LET Inactive(t) == ~t.active
        others == SelectSeq(allTabsInWindow, Inactive)
    IN  SubSeq(others, 1, Len(others) - 1)

\* l.492-495, chrome.tabs.query({windowId, active: false}): the tabs of the window
\* that are not its active tab.
otherTabsInWindow(allTabsInWindow) ==
    LET Inactive(t) == ~t.active IN SelectSeq(allTabsInWindow, Inactive)

\* handleTabActivated returns: ledger and timers as it found them (before) and as
\* it leaves them, and the tabs it called startArchiveTimer for.
ActivatedRet(m, f) ==
    [m EXCEPT !.ret = Append(@,
        [fn |-> "handleTabActivated", id |-> f.id, w |-> f.w, outcome |-> "handled",
         before |-> f.snap, ledger |-> m.ledger,
         timers |-> {a.scheduledTime : a \in AlarmsOf(m.alarms, f.id)},
         started |-> [j \in DOMAIN f.list |-> f.list[j].id],
         settings |-> m.settings, at |-> m.now])]

handleTabActivated(m, f, r) ==
    CASE f.pc = "entry" ->
           IF f.id = TAB_ID_NONE THEN Out(m, <<>>, FALSE)
           ELSE Out(m, <<Touch(f.id), Cancel(f.id),
                         [f EXCEPT !.pc = "others",
                                   !.snap = [ledger |-> m.ledger, alarms |-> m.alarms,
                                             order |-> m.order, at |-> m.now]]>>, FALSE)
      [] f.pc = "others" ->
           LET StartOf(t) == Start(t.id, t)
               others == otherTabsInWindow(IF f.w \in Windows THEN WindowTabs(m, f.w)
                                           ELSE <<>>)
           IN  Out(Called(m, f.fn, "tabs.query", TAB_ID_NONE, r),
                   [j \in 1..Len(others) |-> StartOf(others[j])]
                       \o <<Catch, [f EXCEPT !.pc = "return", !.list = others]>>, TRUE)
      [] f.pc = "return" ->
           Out(ActivatedRet(m, f), <<>>, FALSE)

handleTabMoved(m, f, r) ==
    IF f.w # WINDOW_ID_NONE THEN Out(m, <<Sort(f.w)>>, FALSE) ELSE Out(m, <<>>, FALSE)

\* l.536: setTimeout(() => sortTabsInWindow(windowId), 100) starts a sort of its own.
handleTabRemoved(m, f, r) ==
    CASE f.pc = "entry" -> Out(m, <<Cancel(f.id), [f EXCEPT !.pc = "forget"]>>, FALSE)
      [] f.pc = "forget" ->
           Out([m EXCEPT !.ledger = LedgerDelete(@, f.id),
                         !.spawn = IF m.settings.tabSortingEnabled /\ f.w # WINDOW_ID_NONE
                                   THEN @ \o <<Task("sortTabsInWindow", <<Sort(f.w)>>)>>
                                   ELSE @],
               <<>>, FALSE)

handleTabGroupUpdated(m, f, r) ==
    IF f.w # WINDOW_ID_NONE THEN Out(m, <<Sort(f.w)>>, FALSE) ELSE Out(m, <<>>, FALSE)

handleWindowFocusChanged(m, f, r) ==
    CASE f.pc = "entry" ->
           LET Tab(mode) == [Frame("handleWindowFocusChanged", "tab") EXCEPT !.mode = mode]
               TabNone(t)  == [Tab("none") EXCEPT !.id = t.id, !.tab = t]
               TabFocus(t) == [Tab("focus") EXCEPT !.id = t.id, !.tab = t]
           IN  IF f.w = WINDOW_ID_NONE
               THEN Out(Called(m, f.fn, "windows.getAll", TAB_ID_NONE, r),
                        [j \in 1..Len(AllTabs(m)) |-> TabNone(AllTabs(m)[j])] \o <<Catch>>,
                        TRUE)
               ELSE Out(Called(m, f.fn, "tabs.query", TAB_ID_NONE, r),
                        [j \in 1..Len(WindowTabs(m, f.w)) |-> TabFocus(WindowTabs(m, f.w)[j])]
                            \o <<[f EXCEPT !.pc = "otherWindows"], Catch>>, TRUE)
      [] f.pc = "tab" -> isTabEffectivelyActive(m, f, r, "tabClassified")
      [] f.pc = "tabClassified" ->
           IF f.mode = "none"
           THEN Out(m, IF f.eff THEN <<>> ELSE <<Start(f.id, f.tab)>>, FALSE)
           ELSE Out(m, IF f.eff THEN <<Touch(f.id), Cancel(f.id)>>
                       ELSE <<Start(f.id, f.tab)>>, FALSE)
      [] f.pc = "otherWindows" ->
           LET Other(t)   == t.windowId # f.w
               StartOf(t) == Start(t.id, t)
               others     == SelectSeq(AllTabs(m), Other)
           IN  Out(Called(m, f.fn, "windows.getAll", TAB_ID_NONE, r),
                   [j \in 1..Len(others) |-> StartOf(others[j])], TRUE)

\* f.name is alarm.name.
handleAlarm(m, f, r) ==
    IF startsWithPrefix(f.name)
    THEN LET tabId == parseInt(Tail(f.name))
         IN  IF ~tabId.isNaN THEN Out(m, <<Archive(tabId.value, NoTab)>>, FALSE)
             ELSE Out(m, <<>>, FALSE)
    ELSE Out(m, <<>>, FALSE)

\* The names chrome.alarms.getAll lists, each once, by tab id.
RECURSIVE AlarmNames(_, _)
AlarmNames(al, t) ==
    IF t > NTabs THEN <<>>
    ELSE (IF AlarmsOf(al, t) # {} THEN <<getAlarmName(t)>> ELSE <<>>) \o AlarmNames(al, t + 1)

\* The handler returns: the notification it was given, and the snapshot it leaves.
StorageRet(m, f, outcome) ==
    [m EXCEPT !.ret = Append(@,
        [fn |-> "handleStorageChanged", id |-> TAB_ID_NONE, outcome |-> outcome,
         areaName |-> f.mode, newValue |-> f.val, oldValue |-> f.old,
         settings |-> m.settings, at |-> m.now])]

\* f.mode is areaName, f.val is changes.arcLikeExtensionSettings.newValue; f.old
\* keeps the snapshot the handler replaced.
handleStorageChanged(m, f, r) ==
    CASE f.pc = "entry" ->
           IF f.mode = "local"
           THEN LET Clear(name) == [Frame("handleStorageChanged", "clear") EXCEPT !.name = name]
                IN  Out(Called([m EXCEPT !.settings = f.val], f.fn, "alarms.getAll", TAB_ID_NONE, r),
                        [j \in 1..Len(AlarmNames(m.alarms, 1)) |-> Clear(AlarmNames(m.alarms, 1)[j])]
                            \o <<ScanAgain, [f EXCEPT !.pc = "return", !.old = m.settings]>>, TRUE)
           ELSE Out(StorageRet(m, [f EXCEPT !.old = m.settings], "ignored"), <<>>, FALSE)
      [] f.pc = "clear" ->
           Out(alarmsClear(m, f.fn, TAB_ID_NONE, f.name, r), <<>>, TRUE)
      [] f.pc = "return" ->
           Out(StorageRet(m, f, "handled"), <<>>, FALSE)

\* --------------------------------------------------------------- execution
\* Frame f runs from its pc to its next await (yield) or to its end.
Exec(m, f, r) ==
    CASE f.fn = "updateTabLastActiveTime" -> updateTabLastActiveTime(m, f)
      [] f.fn = "cancelArchiveTimer" -> cancelArchiveTimer(m, f, r)
      [] f.fn = "startArchiveTimer" -> startArchiveTimer(m, f, r)
      [] f.fn = "archiveTab" -> archiveTab(m, f, r)
      [] f.fn = "sortTabsInWindow" -> sortTabsInWindow(m, f, r)
      [] f.fn = "initialTabScan" -> initialTabScan(m, f, r)
      [] f.fn = "handleTabCreated" -> handleTabCreated(m, f, r)
      [] f.fn = "handleTabUpdated" -> handleTabUpdated(m, f, r)
      [] f.fn = "handleTabActivated" -> handleTabActivated(m, f, r)
      [] f.fn = "handleTabMoved" -> handleTabMoved(m, f, r)
      [] f.fn = "handleTabRemoved" -> handleTabRemoved(m, f, r)
      [] f.fn = "handleTabGroupUpdated" -> handleTabGroupUpdated(m, f, r)
      [] f.fn = "handleWindowFocusChanged" -> handleWindowFocusChanged(m, f, r)
      [] f.fn = "handleAlarm" -> handleAlarm(m, f, r)
      [] f.fn = "handleStorageChanged" -> handleStorageChanged(m, f, r)
      [] f.fn = "catch" -> Out(m, <<>>, FALSE)

\* An exception leaves the frames up to the nearest catch clause; with none, it
\* leaves the handler (an unhandled rejection).
RECURSIVE Unwind(_)
Unwind(agenda) ==
    IF agenda = <<>> THEN <<>>
    ELSE IF Head(agenda).fn = "catch" THEN Tail(agenda)
    ELSE Unwind(Tail(agenda))

\* The agenda runs until a frame suspends at an await or nothing is left.
RECURSIVE Run(_, _, _)
Run(m, agenda, r) ==
    IF agenda = <<>> THEN [m |-> m, agenda |-> <<>>]
    ELSE LET o == Exec(m, Head(agenda), r)
         IN  IF o.m.thrown THEN [m |-> o.m, agenda |-> Unwind(Tail(agenda))]
             ELSE IF o.yield THEN [m |-> o.m, agenda |-> o.push \o Tail(agenda)]
             ELSE Run(o.m, o.push \o Tail(agenda), r)

\* ------------------------------------------------------------------- state
StartMs == TickMs
Results == {"ok", "lock", "error"}

Browser == [tabs |-> tabs, order |-> order, active |-> active, focused |-> focused]

\* The state a step starts from.
Machine ==
    [tabs |-> tabs, order |-> order, active |-> active, focused |-> focused,
     settings |-> currentSettings, ledger |-> tabLastActiveTimes, alarms |-> alarms,
     now |-> now, locks |-> budget.locks,
     faults |-> IF "faults" \in DOMAIN budget THEN budget.faults ELSE 0, thrown |-> FALSE,
     spawn |-> <<>>, call |-> NoCall, ret |-> <<>>, called |-> FALSE, valid |-> TRUE]

RemoveAt(s, k) == SubSeq(s, 1, k - 1) \o SubSeq(s, k + 1, Len(s))

\* initialize() (l.12-32) has loaded the settings and registered the listeners; the
\* ledger is empty, initialTabScan is about to run.  Tabs 1..k are open in window 1,
\* tab 1 is the active one; the other ids are not in use yet.  The last open tab may
\* be in the window's group; or (the alarm store outlives the process) an alarm of
\* an earlier run may be outstanding for the largest tab id.
Startup(settingsChoices, focusChoices, locks) ==
    /\ \E k \in 1..NTabs, g \in {TAB_GROUP_ID_NONE, GroupOf(1)}, old \in {{}, {NTabs}} :
         /\ g = TAB_GROUP_ID_NONE \/ old = {}
         /\ tabs = [t \in Tabs |->
                      [status |-> IF t <= k THEN "open" ELSE "none",
                       windowId |-> IF t <= k THEN 1 ELSE WINDOW_ID_NONE,
                       pinned |-> FALSE,
                       groupId |-> IF t = k THEN g ELSE TAB_GROUP_ID_NONE]]
         /\ order = [w \in Windows |-> IF w = 1 THEN [i \in 1..k |-> i] ELSE <<>>]
         /\ active = [w \in Windows |-> IF w = 1 THEN 1 ELSE TAB_ID_NONE]
         /\ alarms = {[name |-> getAlarmName(t), scheduledTime |-> StartMs] : t \in old}
    /\ focused \in focusChoices
    /\ currentSettings \in settingsChoices
    /\ tabLastActiveTimes = << >>
    /\ now = StartMs
    /\ tasks = <<Task("initialize", <<Scan>>)>>
    /\ obs = NoObs
    /\ budget = [events |-> MaxEvents, locks |-> locks]

\* The browser window is focused and the threshold is five minutes.
Init == Startup({FiveMinutes}, {1}, MaxRaceLocks)

\* ------------------------------------------------------------------ actions
\* Handler invocation k runs from the await it is suspended at to its next await;
\* r is the result of the chrome.* call it issues.
Resume(k, r) ==
    /\ k \in 1..Len(tasks)
    /\ \E out \in {Run(Machine, tasks[k].agenda, r)} :
       LET m == out.m
       IN  /\ IF m.called THEN m.valid ELSE r = "ok"
           /\ tabs' = m.tabs
           /\ order' = m.order
           /\ active' = m.active
           /\ currentSettings' = m.settings
           /\ tabLastActiveTimes' = m.ledger
           /\ alarms' = m.alarms
           /\ tasks' = (IF out.agenda = <<>> THEN RemoveAt(tasks, k)
                        ELSE [tasks EXCEPT ![k].agenda = out.agenda]) \o m.spawn
           /\ obs' = [call |-> m.call, ret |-> m.ret]
           /\ budget' = IF "faults" \in DOMAIN budget
                        THEN [budget EXCEPT !.locks = m.locks, !.faults = m.faults]
                        ELSE [budget EXCEPT !.locks = m.locks]
           /\ UNCHANGED <<focused, now>>

\* The browser changes to b and dispatches the handler invocations ts.
Event(b, ts) ==
    /\ budget.events > 0
    /\ tabs' = b.tabs
    /\ order' = b.order
    /\ active' = b.active
    /\ focused' = b.focused
    /\ tasks' = tasks \o ts
    /\ obs' = NoObs
    /\ budget' = [budget EXCEPT !.events = @ - 1]
    /\ UNCHANGED <<currentSettings, tabLastActiveTimes, alarms, now>>

OnCreated(tab) ==
    Task("handleTabCreated", <<[Frame("handleTabCreated", "entry") EXCEPT !.id = tab.id, !.tab = tab]>>)
OnUpdated(tab, key) ==
    Task("handleTabUpdated",
         <<[Frame("handleTabUpdated", "entry") EXCEPT !.id = tab.id, !.tab = tab, !.mode = key]>>)
OnFocusChanged(w) ==
    Task("handleWindowFocusChanged", <<[Frame("handleWindowFocusChanged", "entry") EXCEPT !.w = w]>>)
OnGroupUpdated(w) ==
    Task("handleTabGroupUpdated", <<[Frame("handleTabGroupUpdated", "entry") EXCEPT !.w = w]>>)
OnAlarm(name) ==
    Task("handleAlarm", <<[Frame("handleAlarm", "entry") EXCEPT !.name = name]>>)
OnStorageChanged(area, newValue) ==
    Task("handleStorageChanged",
         <<[Frame("handleStorageChanged", "entry") EXCEPT !.mode = area, !.val = newValue]>>)

\* A tab opens at the end of window w, in the foreground or in the background; the
\* browser hands out tab ids in increasing order.
TabCreated(t, w, foreground) ==
    /\ tabs[t].status = "none"
    /\ \A u \in Tabs : u < t => tabs[u].status # "none"
    /\ LET b == [Browser EXCEPT !.tabs[t].status = "open",
                                !.tabs[t].windowId = w,
                                !.order[w] = Append(@, t),
                                !.active[w] = IF foreground \/ @ = TAB_ID_NONE THEN t ELSE @]
       IN  Event(b, <<OnCreated(TabView(b, t))>>
                    \o (IF b.active[w] = t THEN <<OnActivated(t, w)>> ELSE <<>>))

\* The user selects another tab of a window.
TabActivated(t) ==
    /\ IsOpen(Browser, t)
    /\ active[tabs[t].windowId] # t
    /\ LET w == tabs[t].windowId
       IN  Event([Browser EXCEPT !.active[w] = t], <<OnActivated(t, w)>>)

\* The number of pinned tabs of window w other than t: where t goes when (un)pinned.
PinnedOthers(w, t) == Cardinality({i \in 1..Len(order[w]) : order[w][i] # t /\ tabs[order[w][i]].pinned})

\* The user pins or unpins a tab; pinned tabs are at the front, and in no group.
TabPinToggled(t) ==
    /\ IsOpen(Browser, t)
    /\ LET w == tabs[t].windowId
           b == [Browser EXCEPT !.tabs[t].pinned = ~@,
                                !.tabs[t].groupId = TAB_GROUP_ID_NONE,
                                !.order[w] = InsertAt(SeqWithout(@, t), PinnedOthers(w, t), t)]
       IN  Event(b, <<OnUpdated(TabView(b, t), "pinned")>>)

\* The user puts a tab into the group of its window or takes it out.
TabGroupToggled(t) ==
    /\ IsOpen(Browser, t)
    /\ ~tabs[t].pinned
    /\ LET b == [Browser EXCEPT !.tabs[t].groupId =
                                    IF @ = TAB_GROUP_ID_NONE THEN GroupOf(tabs[t].windowId)
                                    ELSE TAB_GROUP_ID_NONE]
       IN  Event(b, <<OnUpdated(TabView(b, t), "groupId")>>)

\* A tab finishes loading.
TabLoaded(t) ==
    /\ IsOpen(Browser, t)
    /\ Event(Browser, <<OnUpdated(TabView(Browser, t), "status")>>)

\* The user drags a tab to another position of its window.
TabMoved(t, i) ==
    /\ IsOpen(Browser, t)
    /\ LET w   == tabs[t].windowId
           new == InsertAt(SeqWithout(order[w], t), i, t)
       IN  /\ new # order[w]
           /\ Event([Browser EXCEPT !.order[w] = new], <<OnMoved(t, w)>>)

\* The user closes a tab.
TabClosed(t) ==
    /\ IsOpen(Browser, t)
    /\ LET m == BrowserRemove([tabs |-> tabs, order |-> order, active |-> active,
                               spawn |-> <<>>], t)
       IN  Event([tabs |-> m.tabs, order |-> m.order, active |-> m.active, focused |-> focused],
                 m.spawn)

\* The group of a window changes its title or colour.
GroupUpdated(w) ==
    /\ \E i \in 1..Len(order[w]) : tabs[order[w][i]].groupId # TAB_GROUP_ID_NONE
    /\ Event(Browser, <<OnGroupUpdated(w)>>)

\* The focus goes to window w, or to no window of the browser.
FocusChanged(w) ==
    /\ focused # w
    /\ IF w = WINDOW_ID_NONE THEN TRUE ELSE order[w] # <<>>
    /\ Event([Browser EXCEPT !.focused = w], <<OnFocusChanged(w)>>)

\* saveSettings(settings) (unnamed/part_000 l.19-25): chrome.storage.sync.set; the
\* browser reports the change of the "sync" area.
SettingsSaved(s) ==
    Event(Browser, <<OnStorageChanged("sync", s)>>)

\* The settings key of the "local" area is written: the area handleStorageChanged
\* (l.639) reacts to.
LocalSettingsWritten(s) ==
    Event(Browser, <<OnStorageChanged("local", s)>>)

\* An outstanding alarm that is due fires: it leaves the store, onAlarm is dispatched.
AlarmFired(a) ==
    /\ a \in alarms
    /\ a.scheduledTime <= now
    /\ alarms' = alarms \ {a}
    /\ tasks' = Append(tasks, OnAlarm(a.name))
    /\ obs' = NoObs
    /\ UNCHANGED <<tabs, order, active, focused, currentSettings, tabLastActiveTimes, now, budget>>

Tick ==
    /\ now < StartMs + MaxNow
    /\ now' = now + TickMs
    /\ obs' = NoObs
    /\ UNCHANGED <<tabs, order, active, focused, currentSettings, tabLastActiveTimes, alarms,
                   tasks, budget>>

\* Handlers interleave at their awaits; the MaxInFlight invocations dispatched first
\* are the ones in progress, the others start as these finish.
Next ==
    \/ \E k \in 1..MaxInFlight, r \in Results : Resume(k, r)
    \/ \E t \in Tabs, w \in Windows, fg \in BOOLEAN : TabCreated(t, w, fg)
    \/ \E t \in Tabs : TabActivated(t)
    \/ \E t \in Tabs : TabPinToggled(t)
    \/ \E t \in Tabs : TabGroupToggled(t)
    \/ \E t \in Tabs : TabLoaded(t)
    \/ \E t \in Tabs, i \in 0..(NTabs - 1) : TabMoved(t, i)
    \/ \E t \in Tabs : TabClosed(t)
    \/ \E w \in Windows : GroupUpdated(w)
    \/ \E w \in Windows \cup {WINDOW_ID_NONE} : FocusChanged(w)
    \/ \E s \in SettingsChoices : SettingsSaved(s)
    \/ \E s \in SettingsChoices : LocalSettingsWritten(s)
    \/ \E a \in alarms : AlarmFired(a)
    \/ Tick

Spec == Init /\ [][Next]_vars

\* Every handler invocation runs to its end before the next event is dispatched:
\* the behaviours in which no two handlers interleave.
Idle == tasks = <<>>

SeqNext ==
    \/ \E r \in Results : Resume(1, r)
    \/ \E t \in Tabs, w \in Windows, fg \in BOOLEAN : Idle /\ TabCreated(t, w, fg)
    \/ \E t \in Tabs : Idle /\ TabActivated(t)
    \/ \E t \in Tabs : Idle /\ TabPinToggled(t)
    \/ \E t \in Tabs : Idle /\ TabGroupToggled(t)
    \/ \E t \in Tabs : Idle /\ TabLoaded(t)
    \/ \E t \in Tabs, i \in 0..(NTabs - 1) : Idle /\ TabMoved(t, i)
    \/ \E t \in Tabs : Idle /\ TabClosed(t)
    \/ \E w \in Windows : Idle /\ GroupUpdated(w)
    \/ \E w \in Windows \cup {WINDOW_ID_NONE} : Idle /\ FocusChanged(w)
    \/ \E s \in SettingsChoices : Idle /\ SettingsSaved(s)
    \/ \E s \in SettingsChoices : Idle /\ LocalSettingsWritten(s)
    \/ \E a \in alarms : Idle /\ AlarmFired(a)
    \/ Tick

\* Any of the settings loaded, the browser window focused or not.
SeqInit == Startup(SettingsChoices, {1, WINDOW_ID_NONE}, MaxLocks)

SeqSpec == SeqInit /\ [][SeqNext]_vars

\* ------------------------------------------------ the functions on their own
\* isTabArchivable and the alarm names, applied to inputs of every kind: one tab
\* (pinned or not, in a group or not, in an ordinary or an incognito window, its
\* window focused or not), settings of every combination, and a timestamp that is
\* absent or of one of the ages below.
Minute == 60 * 1000
FnNow == 800 * Minute
FnAges == {0, 59, 60, 61, 720}
FnSettings ==
    [autoArchiveEnabled : BOOLEAN, archiveTimeValue : {12, 60},
     archiveTimeUnit : {"minutes", "hours"}, archiveInIncognito : BOOLEAN,
     tabSortingEnabled : {TRUE}]
Ids == (0 - MaxId)..MaxId

FnInit ==
    /\ \E w \in Windows, p \in BOOLEAN, g \in {TAB_GROUP_ID_NONE, GroupOf(1)} :
         /\ tabs = [t \in Tabs |->
                      IF t = 1 THEN [status |-> "open", windowId |-> w, pinned |-> p, groupId |-> g]
                      ELSE [status |-> "none", windowId |-> WINDOW_ID_NONE, pinned |-> FALSE,
                            groupId |-> TAB_GROUP_ID_NONE]]
         /\ order = [v \in Windows |-> IF v = w THEN <<1>> ELSE <<>>]
         /\ active = [v \in Windows |-> IF v = w THEN 1 ELSE TAB_ID_NONE]
         /\ focused \in {w, WINDOW_ID_NONE}
    /\ currentSettings \in FnSettings
    /\ tabLastActiveTimes \in {<< >>} \cup {LedgerSet(<< >>, 1, FnNow - a * Minute) : a \in FnAges}
    /\ now = FnNow
    /\ alarms = {}
    /\ tasks = <<>>
    /\ obs = NoObs
    /\ budget = [events |-> 0, locks |-> 0]

\* isTabArchivable(tab, tabLastActiveTimes.get(tab.id), currentSettings, active) at
\* Date.now(): what it is given and what it answers.
EvalArchivable ==
    LET tab  == TabView(Browser, 1)
        has  == LedgerHas(tabLastActiveTimes, 1)
        last == IF has THEN tabLastActiveTimes[1] ELSE 0
        eff  == EffectivelyActiveNow(Browser, 1)
    IN  /\ obs = NoObs
        /\ obs' = [call |-> NoCall,
                   ret |-> <<[fn |-> "isTabArchivable", tab |-> tab, hasTime |-> has,
                              lastActiveTime |-> last, settings |-> currentSettings,
                              tabIsEffectivelyActive |-> eff, at |-> now,
                              result |-> isTabArchivable(tab, has, last, currentSettings, eff, now)]>>]
        /\ UNCHANGED <<tabs, order, active, focused, currentSettings, tabLastActiveTimes, alarms,
                       now, tasks, budget>>

\* getAlarmName(id), and what handleAlarm makes of an alarm of that name: the
\* identifier it calls archiveTab with, if it calls it.
EvalAlarmName(id) ==
    LET name == getAlarmName(id)
        out  == handleAlarm(Machine, OnAlarm(name).agenda[1], "ok")
    IN  /\ obs = NoObs
        /\ obs' = [call |-> NoCall,
                   ret |-> <<[fn |-> "getAlarmName", id |-> id, name |-> name,
                              archives |-> out.push # <<>>,
                              tabId |-> IF out.push # <<>> THEN out.push[1].id ELSE TAB_ID_NONE]>>]
        /\ UNCHANGED <<tabs, order, active, focused, currentSettings, tabLastActiveTimes, alarms,
                       now, tasks, budget>>

FnNext ==
    \/ EvalArchivable
    \/ \E id \in Ids : EvalAlarmName(id)

FnSpec == FnInit /\ [][FnNext]_vars

\* --------------------------------------------------------------------------
\* sortTabsInWindow on windows of every shape: up to NSortTabs tabs in window 1,
\* each pinned, ungrouped, or in one of NSortGroups groups; as in the browser, the
\* pinned tabs come first and the tabs of a group are adjacent.  The handler of a
\* tab-group update is about to run; the handlers of the onMoved events that the
\* moves cause run after it, one at a time.
SortKinds ==
    {[pinned |-> TRUE, groupId |-> TAB_GROUP_ID_NONE]} \cup
    {[pinned |-> FALSE, groupId |-> g] : g \in {TAB_GROUP_ID_NONE} \cup 1..NSortGroups}
SortLayouts ==
    {ks \in UNION {[1..n -> SortKinds] : n \in 1..NSortTabs} :
        /\ \A i, j \in DOMAIN ks : i < j /\ ks[j].pinned => ks[i].pinned
        /\ \A i, j, k \in DOMAIN ks :
              i < j /\ j < k /\ ks[i] = ks[k] /\ ks[i].groupId # TAB_GROUP_ID_NONE => ks[j] = ks[i]}

SortInit ==
    /\ \E ks \in SortLayouts :
         /\ tabs = [t \in DOMAIN ks |->
                      [status |-> "open", windowId |-> 1, pinned |-> ks[t].pinned,
                       groupId |-> ks[t].groupId]]
         /\ order = [w \in Windows |-> IF w = 1 THEN [i \in DOMAIN ks |-> i] ELSE <<>>]
    /\ active = [w \in Windows |-> IF w = 1 THEN 1 ELSE TAB_ID_NONE]
    /\ focused = 1
    /\ currentSettings \in {DefaultSettings, SwitchedOff}
    /\ tabLastActiveTimes = << >>
    /\ now = StartMs
    /\ alarms = {}
    /\ tasks = <<OnGroupUpdated(1)>>
    /\ obs = NoObs
    /\ budget = [events |-> 0, locks |-> MaxSortLocks]

SortNext == \E r \in Results : Resume(1, r)

SortSpec == SortInit /\ [][SortNext]_vars

\* --------------------------------------------------------------------------
\* sortTabsInWindow called for window 1 and, as soon as it has returned, called for
\* it again, on the windows of SortSpec; the handlers of the onMoved events run
\* after the two calls.
TwiceInit ==
    /\ \E ks \in SortLayouts :
         /\ tabs = [t \in DOMAIN ks |->
                      [status |-> "open", windowId |-> 1, pinned |-> ks[t].pinned,
                       groupId |-> ks[t].groupId]]
         /\ order = [w \in Windows |-> IF w = 1 THEN [i \in DOMAIN ks |-> i] ELSE <<>>]
    /\ active = [w \in Windows |-> IF w = 1 THEN 1 ELSE TAB_ID_NONE]
    /\ focused = 1
    /\ currentSettings \in {DefaultSettings, SwitchedOff}
    /\ tabLastActiveTimes = << >>
    /\ now = StartMs
    /\ alarms = {}
    /\ tasks = <<Task("sortTabsInWindow", SortTwice(1))>>
    /\ obs = NoObs
    /\ budget = [events |-> 0, locks |-> MaxSortLocks]

TwiceNext == \E r \in Results : Resume(1, r)

TwiceSpec == TwiceInit /\ [][TwiceNext]_vars

\* --------------------------------------------------------------------------
\* sortTabsInWindow while the user drags a tab: from some call on, chrome.tabs.move
\* is refused with "Tabs cannot be edited right now" for up to MaxDragLocks calls
\* in a row; a refusal follows a refusal or is the first one.  The windows are
\* those of SortSpec that have up to NDragTabs tabs, none pinned; the handlers are
\* the same.
DragInit ==
    /\ \E ks \in SortLayouts :
         /\ Len(ks) <= NDragTabs
         /\ \A t \in DOMAIN ks : ~ks[t].pinned
         /\ tabs = [t \in DOMAIN ks |->
                      [status |-> "open", windowId |-> 1, pinned |-> ks[t].pinned,
                       groupId |-> ks[t].groupId]]
         /\ order = [w \in Windows |-> IF w = 1 THEN [i \in DOMAIN ks |-> i] ELSE <<>>]
    /\ active = [w \in Windows |-> IF w = 1 THEN 1 ELSE TAB_ID_NONE]
    /\ focused = 1
    /\ currentSettings \in {DefaultSettings, SwitchedOff}
    /\ tabLastActiveTimes = << >>
    /\ now = StartMs
    /\ alarms = {}
    /\ tasks = <<OnGroupUpdated(1)>>
    /\ obs = NoObs
    /\ budget = [events |-> 0, locks |-> MaxDragLocks]

DragNext ==
    \E r \in Results :
        /\ r = "lock" => (budget.locks = MaxDragLocks \/ obs.call.result = "lock")
        /\ Resume(1, r)

DragSpec == DragInit /\ [][DragNext]_vars

\* --------------------------------------------------------------------------
\* initialTabScan run twice: initialize() runs it; then, with nothing else having
\* happened, the settings key of the "local" area is rewritten with the value it
\* has, and handleStorageChanged runs it again.  The clock may advance at any time.
SameSettingsWritten == Idle /\ LocalSettingsWritten(currentSettings)

ScanNext ==
    \/ \E r \in Results : Resume(1, r)
    \/ SameSettingsWritten
    \/ Tick

ScanSpec == SeqInit /\ [][ScanNext]_vars

\* --------------------------------------------------------------------------
\* An archive alarm has fired, one tick after the tabs were last active: handleAlarm
\* is about to run for tab t, and the handlers of the events its removal causes
\* run after it.  Tabs 1..k are open in window 1, the last of them may be in the
\* group; the ledger has an entry for every open tab or for none.  An awaited
\* chrome.* call completes, and the event loop then resumes the handler that awaits
\* it (weak fairness).
AlarmInit ==
    /\ \E k \in 1..NTabs, g \in {TAB_GROUP_ID_NONE, GroupOf(1)}, t \in Tabs, tracked \in BOOLEAN :
         /\ tabs = [u \in Tabs |->
                      [status |-> IF u <= k THEN "open" ELSE "none",
                       windowId |-> IF u <= k THEN 1 ELSE WINDOW_ID_NONE,
                       pinned |-> FALSE,
                       groupId |-> IF u = k THEN g ELSE TAB_GROUP_ID_NONE]]
         /\ order = [w \in Windows |-> IF w = 1 THEN [i \in 1..k |-> i] ELSE <<>>]
         /\ active = [w \in Windows |-> IF w = 1 THEN 1 ELSE TAB_ID_NONE]
         /\ tabLastActiveTimes = IF tracked THEN [u \in 1..k |-> StartMs] ELSE << >>
         /\ tasks = <<OnAlarm(getAlarmName(t))>>
    /\ focused \in {1, WINDOW_ID_NONE}
    /\ currentSettings \in SettingsChoices
    /\ now = StartMs + TickMs
    /\ alarms = {}
    /\ obs = NoObs
    /\ budget = [events |-> 0, locks |-> MaxLocks]

AlarmNext == \E r \in Results : Resume(1, r)

AlarmSpec == AlarmInit /\ [][AlarmNext]_vars /\ WF_vars(AlarmNext)

\* --------------------------------------------------------------------------
\* startArchiveTimer and sortTabsInWindow called on their own, with any tab
\* identifier a caller may pass (chrome.tabs.TAB_ID_NONE included) and for any
\* window, after the startup scan; the clock may advance at any time.
StartCalled(id) ==
    Idle /\ Event(Browser, <<Task("startArchiveTimer", <<Start(id, NoTab)>>)>>)

SortCalled(w) ==
    Idle /\ Event(Browser, <<Task("sortTabsInWindow", <<Sort(w)>>)>>)

CallNext ==
    \/ \E r \in Results : Resume(1, r)
    \/ \E id \in Tabs \cup {TAB_ID_NONE} : StartCalled(id)
    \/ \E w \in Windows : SortCalled(w)
    \/ Tick

CallSpec == SeqInit /\ [][CallNext]_vars

\* --------------------------------------------------------------------------
\* Two calls of the primitive operations, made by two events one after the other:
\* the second call is made once the first has run to its first await (or to its
\* end), and from then on the two interleave at their awaits; the handlers of the
\* events a removal causes run after them.  Tabs 1..k are open in window 1, tab 1
\* is its active tab; the ledger has an entry for every open tab or for none; an
\* alarm of an earlier run is outstanding for every tab or for none.  budget.made
\* remembers the two calls.
Primitives ==
    {"updateTabLastActiveTime", "startArchiveTimer", "cancelArchiveTimer", "archiveTab"}

PrimitiveCall(fn, id) == Task(fn, <<[Frame(fn, "entry") EXCEPT !.id = id]>>)

NotStarted(task) == task.agenda[1].fn = task.h /\ task.agenda[1].pc = "entry"

PairInit ==
    /\ \E k \in 1..NTabs, tracked \in BOOLEAN, old \in {{}, Tabs} :
         /\ tabs = [u \in Tabs |->
                      [status |-> IF u <= k THEN "open" ELSE "none",
                       windowId |-> IF u <= k THEN 1 ELSE WINDOW_ID_NONE,
                       pinned |-> FALSE, groupId |-> TAB_GROUP_ID_NONE]]
         /\ order = [w \in Windows |-> IF w = 1 THEN [i \in 1..k |-> i] ELSE <<>>]
         /\ active = [w \in Windows |-> IF w = 1 THEN 1 ELSE TAB_ID_NONE]
         /\ tabLastActiveTimes = IF tracked THEN [u \in 1..k |-> StartMs] ELSE << >>
         /\ alarms = {[name |-> getAlarmName(t), scheduledTime |-> StartMs + TickMs] : t \in old}
    /\ \E f1 \in Primitives, f2 \in Primitives, i1 \in Tabs, i2 \in Tabs :
         /\ tasks = <<PrimitiveCall(f1, i1), PrimitiveCall(f2, i2)>>
         /\ budget = [events |-> 0, locks |-> MaxRaceLocks,
                      made |-> <<[fn |-> f1, id |-> i1], [fn |-> f2, id |-> i2]>>]
    /\ focused \in {1, WINDOW_ID_NONE}
    /\ currentSettings \in {FiveMinutes, SwitchedOff}
    /\ now = StartMs
    /\ obs = NoObs

PairResume(k, r) ==
    /\ k \in 1..Len(tasks)
    /\ k = 2 => ~NotStarted(tasks[1])
    /\ Resume(k, r)

PairNext ==
    \/ \E k \in 1..MaxInFlight, r \in Results : PairResume(k, r)
    \/ Tick

PairSpec == PairInit /\ [][PairNext]_vars

\* --------------------------------------------------------------------------
\* The batches with an alarm store that may fail: the startup scan, then an
\* activation or a focus change, each handler running to its end before the next
\* event; chrome.alarms.clear is rejected up to MaxFaults times.  Tabs 1..k are
\* open in window 1, as in Startup.
FaultInit ==
    /\ \E k \in 1..NTabs, g \in {TAB_GROUP_ID_NONE, GroupOf(1)}, old \in {{}, {NTabs}} :
         /\ g = TAB_GROUP_ID_NONE \/ old = {}
         /\ tabs = [t \in Tabs |->
                      [status |-> IF t <= k THEN "open" ELSE "none",
                       windowId |-> IF t <= k THEN 1 ELSE WINDOW_ID_NONE,
                       pinned |-> FALSE,
                       groupId |-> IF t = k THEN g ELSE TAB_GROUP_ID_NONE]]
         /\ order = [w \in Windows |-> IF w = 1 THEN [i \in 1..k |-> i] ELSE <<>>]
         /\ active = [w \in Windows |-> IF w = 1 THEN 1 ELSE TAB_ID_NONE]
         /\ alarms = {[name |-> getAlarmName(t), scheduledTime |-> StartMs] : t \in old}
    /\ focused \in {1, WINDOW_ID_NONE}
    /\ currentSettings \in SettingsChoices
    /\ tabLastActiveTimes = << >>
    /\ now = StartMs
    /\ tasks = <<Task("initialize", <<Scan>>)>>
    /\ obs = NoObs
    /\ budget = [events |-> MaxEvents, locks |-> MaxRaceLocks, faults |-> MaxFaults]

FaultNext ==
    \/ \E r \in Results : Resume(1, r)
    \/ \E t \in Tabs : Idle /\ TabActivated(t)
    \/ \E w \in Windows \cup {WINDOW_ID_NONE} : Idle /\ FocusChanged(w)
    \/ Tick

FaultSpec == FaultInit /\ [][FaultNext]_vars

\* -------------------------------------------------------------- properties
\* Tab t is one the core is to archive once it has been inactive long enough:
\* auto-archive is on, the tab exists, is not pinned, in no group, not excluded as
\* incognito, not effectively active, and the ledger has an entry for it.
EligibleApartFromTime(t) ==
    /\ currentSettings.autoArchiveEnabled
    /\ IsOpen(Browser, t)
    /\ ~tabs[t].pinned
    /\ tabs[t].groupId = TAB_GROUP_ID_NONE
    /\ ~(tabs[t].windowId \in IncognitoWindows /\ ~currentSettings.archiveInIncognito)
    /\ ~EffectivelyActiveNow(Browser, t)
    /\ LedgerHas(tabLastActiveTimes, t)

\* ... and its inactivity has reached the threshold.
Overdue(t) ==
    /\ EligibleApartFromTime(t)
    /\ now - tabLastActiveTimes[t] >= archiveThresholdMs(currentSettings)

\* The returns of the last step.
Returns == {obs.ret[i] : i \in 1..Len(obs.ret)}
ReturnsOf(fn) == {rec \in Returns : rec.fn = fn}

\* C1: eventual eviction.  With no handler in flight and no further event, only an
\* outstanding timer can still bring about the removal of a tab; so whenever the
\* core is idle, every eligible tab whose inactivity has reached the threshold has
\* an outstanding timer (that will fire and remove it).
C1_EventualEviction ==
    \A t \in Tabs : (tasks = <<>> /\ Overdue(t)) => AlarmsOf(alarms, t) # {}

\* C2: in every reachable state, under every interleaving of the handlers, the
\* alarm store lists at most one outstanding timer per name (per tab identifier).
C2_AtMostOneTimerPerTab ==
    \A a \in alarms, b \in alarms : a.name = b.name => a = b

\* A timer is listed while two handler invocations are in flight and one of them
\* has just cleared a timer.
C2_TimerListedAmidHandlers ==
    /\ \E t \in Tabs : Cardinality(AlarmsOf(alarms, t)) = 1
    /\ Len(tasks) >= 2
    /\ obs.call.api = "alarms.clear"

\* C3: when handleStorageChanged has handled the change from the 12-hour threshold
\* to the 5-minute threshold (timers cleared, reconciliation scan run), every tab
\* that is still inactive and otherwise eligible (the tabs that are to have a timer
\* before the change) has exactly one timer, due when its inactivity reaches the
\* new threshold.
C3_RearmedForNewThreshold ==
    \A rec \in ReturnsOf("handleStorageChanged") :
        (rec.outcome = "handled" /\ rec.oldValue = DefaultSettings /\ rec.newValue = FiveMinutes)
        => \A t \in Tabs :
             (EligibleApartFromTime(t) /\ ~Overdue(t))
             => {a.scheduledTime : a \in AlarmsOf(alarms, t)}
                    = {tabLastActiveTimes[t] + archiveThresholdMs(rec.newValue)}

\* C4: the change notification of a saveSettings write (storage area "sync") is
\* handled: when the handler returns, timers were cleared and the scan re-run, and
\* the settings snapshot is the new value.
C4_SavedSettingsHandled ==
    \A rec \in ReturnsOf("handleStorageChanged") :
        rec.areaName = "sync" => (rec.outcome = "handled" /\ rec.settings = rec.newValue)

\* C5: when the second of two startArchiveTimer calls in immediate succession for
\* the same tab returns, and the tab is inactive and eligible apart from its
\* remaining time, exactly one timer is outstanding for it, due when its
\* inactivity reaches the threshold (the delay the second call computes).
C5_ArmTwiceLeavesOneTimer ==
    \A rec \in ReturnsOf("startArchiveTimer") :
        (rec.attempts = 1 /\ EligibleApartFromTime(rec.id) /\ ~Overdue(rec.id))
        => rec.timers = {tabLastActiveTimes[rec.id] + archiveThresholdMs(currentSettings)}

\* C6: whenever a call of archiveTab that ran without another handler in between
\* returns, whatever its outcome, the ledger has no entry for its tab and no timer
\* for its tab is outstanding.
C6_ArchiveLeavesNoEntryNoTimer ==
    \A rec \in ReturnsOf("archiveTab") : ~rec.hasEntry /\ rec.timers = {}

\* archiveTab returns having found the (tracked) tab no longer eligible.
C6_ReturnedIneligible ==
    \E rec \in ReturnsOf("archiveTab") : rec.outcome = "ineligible" /\ rec.open

\* C7: a call of archiveTab without a snapshot whose chrome.tabs.get does not find
\* the tab makes no chrome.tabs.remove call, returns normally, and leaves no
\* ledger entry and no timer for the tab.
C7_MissingTabNoRemoval ==
    \A rec \in ReturnsOf("archiveTab") :
        rec.mode = "gone"
        => (rec.attempts = 0 /\ rec.outcome = "notfound" /\ ~rec.hasEntry /\ rec.timers = {})

\* archiveTab returns from a call for a tab that does not exist.
C7_ReturnedForMissingTab ==
    \E rec \in ReturnsOf("archiveTab") : rec.mode = "gone" /\ ~rec.open

\* C8: archiveTab calls chrome.tabs.remove at most MAX_RETRIES (5) times.  After 4
\* transient-lock errors and a success it returns with the tab removed; after 5
\* transient-lock errors it returns normally (the failure is contained) with the
\* tab still present; in both cases ledger entry and timer of the tab are gone.
C8_LockRetries ==
    \A rec \in ReturnsOf("archiveTab") :
        /\ rec.attempts <= MAX_RETRIES
        /\ rec.outcome = "removed" => (~rec.open /\ ~rec.hasEntry /\ rec.timers = {})
        /\ rec.outcome = "lockExhausted"
           => (rec.attempts = MAX_RETRIES /\ rec.open /\ ~rec.hasEntry /\ rec.timers = {})

\* archiveTab removed the tab at its fifth attempt.
C8_RemovedAtFifthAttempt ==
    \E rec \in ReturnsOf("archiveTab") : rec.outcome = "removed" /\ rec.attempts = MAX_RETRIES

\* C9: under every interleaving, the tab of a chrome.tabs.remove call is, in the
\* browser's state at the moment of the call, neither pinned nor in a group.
C9_NeverRemovesPinnedOrGrouped ==
    obs.call.api = "tabs.remove" => (~obs.call.pinned /\ ~obs.call.grouped)

\* C10: under every interleaving, the tab of a chrome.tabs.remove call (first
\* attempt or retry) is not effectively active at the moment of the call.
C10_NeverRemovesEffectivelyActive ==
    obs.call.api = "tabs.remove" => ~obs.call.effActive

\* C11: under every interleaving, when archiveTab evaluates a tab for which the
\* ledger has no entry, that attempt issues no chrome.tabs.remove: the first
\* chrome.tabs.remove of an archiveTab call (issued in the step of the evaluation)
\* is for a tab with a ledger entry.
C11_UntrackedNeverRemoved ==
    (obs.call.api = "tabs.remove" /\ obs.call.attempt = 1) => obs.call.hasEntry

\* archiveTab has evaluated an existing tab without ledger entry and returns without
\* having called chrome.tabs.remove.
C11_ReturnedUntracked ==
    \E rec \in ReturnsOf("archiveTab") :
        rec.outcome = "untracked" /\ rec.open /\ rec.attempts = 0
        /\ rec.settings.autoArchiveEnabled /\ ~tabs[rec.id].pinned
        /\ tabs[rec.id].groupId = TAB_GROUP_ID_NONE

\* The other conditions of isTabArchivable all favour archiving.
OthersFavour(rec) ==
    /\ rec.settings.autoArchiveEnabled
    /\ rec.tab.groupId = TAB_GROUP_ID_NONE
    /\ ~rec.tab.incognito \/ rec.settings.archiveInIncognito
    /\ ~rec.tabIsEffectivelyActive

\* C12: isTabArchivable answers false for every input whose tab is pinned.
C12_PinnedNeverArchivable ==
    \A rec \in ReturnsOf("isTabArchivable") : rec.tab.pinned => ~rec.result

\* A pinned tab for which everything else favours archiving gets the answer false.
C12_PinnedOtherwiseDue ==
    \E rec \in ReturnsOf("isTabArchivable") :
        /\ rec.tab.pinned /\ OthersFavour(rec) /\ rec.hasTime
        /\ rec.at - rec.lastActiveTime >= archiveThresholdMs(rec.settings)
        /\ ~rec.result

\* C13: isTabArchivable answers false whenever the timestamp is absent.
C13_NoTimestampNeverArchivable ==
    \A rec \in ReturnsOf("isTabArchivable") : ~rec.hasTime => ~rec.result

\* No timestamp, and everything else favours archiving: the answer is false.
C13_NoTimestampOtherwiseDue ==
    \E rec \in ReturnsOf("isTabArchivable") :
        ~rec.hasTime /\ ~rec.tab.pinned /\ OthersFavour(rec) /\ ~rec.result

\* C14: isTabArchivable answers true exactly when auto-archive is enabled, the tab
\* is not pinned, in no group, not incognito unless archiveInIncognito is set, not
\* effectively active, the timestamp is present and its age is at least
\* archiveTimeValue * (60000 for minutes, else 3600000); with 60 minutes, an age of
\* 61 minutes gives true and an age of 59 minutes gives false.
C14_ArchivableExactlyWhen ==
    \A rec \in ReturnsOf("isTabArchivable") :
        LET age       == rec.at - rec.lastActiveTime
            threshold == rec.settings.archiveTimeValue *
                             (IF rec.settings.archiveTimeUnit = "minutes" THEN 60000 ELSE 3600000)
            sixtyMin  == rec.settings.archiveTimeValue = 60
                         /\ rec.settings.archiveTimeUnit = "minutes"
                         /\ ~rec.tab.pinned /\ OthersFavour(rec) /\ rec.hasTime
        IN  /\ rec.result <=> (/\ ~rec.tab.pinned
                                /\ OthersFavour(rec)
                                /\ rec.hasTime
                                /\ age >= threshold)
            /\ (sixtyMin /\ age = 61 * 60000) => rec.result
            /\ (sixtyMin /\ age = 59 * 60000) => ~rec.result

\* Threshold 60 minutes, timestamp 61 minutes old, nothing else against: true.
C14_SixtyOneMinutes ==
    \E rec \in ReturnsOf("isTabArchivable") :
        /\ rec.settings.archiveTimeValue = 60 /\ rec.settings.archiveTimeUnit = "minutes"
        /\ ~rec.tab.pinned /\ OthersFavour(rec) /\ rec.hasTime
        /\ rec.at - rec.lastActiveTime = 61 * 60000
        /\ rec.result

\* C19: for every identifier id, handleAlarm given an alarm named getAlarmName(id)
\* (prefix stripped, parseInt base 10) calls archiveTab with id itself, and no other
\* identifier has the same name.
C19_NameRoundTrip ==
    \A rec \in ReturnsOf("getAlarmName") :
        /\ rec.archives
        /\ rec.tabId = rec.id
        /\ \A other \in Ids : other # rec.id => getAlarmName(other) # rec.name

\* The name of a negative identifier of several digits has gone there and back.
C19_NegativeIdRoundTrip ==
    \E rec \in ReturnsOf("getAlarmName") :
        rec.id < -9 /\ Len(rec.name) = 4 /\ rec.archives /\ rec.tabId = rec.id

\* The chrome.tabs.move calls of a sortTabsInWindow call all succeeded.
AllMovesDone(rec) == \A i \in DOMAIN rec.moves : rec.moves[i].result = "ok"
\* The tab ids of a sequence of tab objects.
IdsOf(ts) == [i \in DOMAIN ts |-> ts[i].id]
\* The tab object of id t among ts.
TabOf(ts, t) == ts[CHOOSE i \in DOMAIN ts : ts[i].id = t]

\* C15: when sortTabsInWindow returns from a window whose tabs were, unpinned,
\* [grouped@0, ungrouped@1, grouped@2], and the browser performed what it was asked,
\* it has issued exactly one chrome.tabs.move, of the ungrouped tab to index 3, and
\* the window is now [first grouped tab, second grouped tab, ungrouped tab].
C15_MiddleTabMovedBehind ==
    \A rec \in ReturnsOf("sortTabsInWindow") :
        (/\ Len(rec.seen) = 3
         /\ \A i \in 1..3 : ~rec.seen[i].pinned
         /\ IsGrouped(rec.seen[1]) /\ NotGrouped(rec.seen[2]) /\ IsGrouped(rec.seen[3])
         /\ AllMovesDone(rec))
        => /\ rec.moves = <<[id |-> rec.seen[2].id, index |-> 3, result |-> "ok"]>>
           /\ IdsOf(rec.after) = <<rec.seen[1].id, rec.seen[3].id, rec.seen[2].id>>

\* sortTabsInWindow returns from the window [grouped, ungrouped, grouped], having
\* moved a tab.
C15_SortedGroupedPlainGrouped ==
    \E rec \in ReturnsOf("sortTabsInWindow") :
        /\ Len(rec.seen) = 3
        /\ \A i \in 1..3 : ~rec.seen[i].pinned /\ rec.seen[i].index = i - 1
        /\ IsGrouped(rec.seen[1]) /\ NotGrouped(rec.seen[2]) /\ IsGrouped(rec.seen[3])
        /\ Len(rec.moves) = 1 /\ AllMovesDone(rec)

\* C16: a sortTabsInWindow call that found no unpinned tab in a group has issued
\* no chrome.tabs.move, whatever the order of the ungrouped and pinned tabs.
C16_NoGroupsNoMove ==
    \A rec \in ReturnsOf("sortTabsInWindow") :
        (\A i \in DOMAIN rec.seen : rec.seen[i].pinned \/ ~IsGrouped(rec.seen[i]))
        => rec.moves = <<>>

\* sortTabsInWindow returns from a window of a pinned tab and several ungrouped
\* tabs, and no group.
C16_ReturnedFromGrouplessWindow ==
    \E rec \in ReturnsOf("sortTabsInWindow") :
        /\ rec.outcome = "nogroups"
        /\ \E i \in DOMAIN rec.seen : rec.seen[i].pinned
        /\ Cardinality({i \in DOMAIN rec.seen : ~rec.seen[i].pinned}) >= 2
        /\ \A i \in DOMAIN rec.seen : ~IsGrouped(rec.seen[i])

\* C17: when sortTabsInWindow has completed with reordering enabled, on a window
\* with an (unpinned) grouped tab, every chrome.tabs.move having succeeded and
\* nothing else having changed the window, no ungrouped unpinned tab is at a
\* smaller index than a grouped tab, and every tab it asked to move was unpinned
\* and ungrouped.
C17_UngroupedBehindGrouped ==
    \A rec \in ReturnsOf("sortTabsInWindow") :
        (/\ rec.settings.tabSortingEnabled
         /\ \E i \in DOMAIN rec.seen : ~rec.seen[i].pinned /\ IsGrouped(rec.seen[i])
         /\ AllMovesDone(rec))
        => /\ \A i, j \in DOMAIN rec.after :
                (/\ ~rec.after[i].pinned /\ NotGrouped(rec.after[i])
                 /\ ~rec.after[j].pinned /\ IsGrouped(rec.after[j]))
                => rec.after[i].index > rec.after[j].index
           /\ \A k \in DOMAIN rec.moves :
                /\ ~TabOf(rec.seen, rec.moves[k].id).pinned
                /\ NotGrouped(TabOf(rec.seen, rec.moves[k].id))

\* sortTabsInWindow returns having moved two tabs behind the group, in a window
\* that also has a pinned tab.
C17_MovedTwoTabs ==
    \E rec \in ReturnsOf("sortTabsInWindow") :
        /\ rec.outcome = "sorted" /\ Len(rec.moves) = 2 /\ AllMovesDone(rec)
        /\ rec.moves[1].id # rec.moves[2].id
        /\ \E i \in DOMAIN rec.seen : rec.seen[i].pinned

\* In tab order o no ungrouped unpinned tab precedes a grouped unpinned tab.
InOrder(o) ==
    \A i, j \in DOMAIN o :
        (i < j /\ ~tabs[o[j]].pinned /\ tabs[o[j]].groupId # TAB_GROUP_ID_NONE)
        => (tabs[o[i]].pinned \/ tabs[o[i]].groupId # TAB_GROUP_ID_NONE)

StillCounting(rec, t) ==
    /\ IsOpen(Browser, t)
    /\ LedgerHas(rec.before.ledger, t)
    /\ ~EffectivelyActiveNow(Browser, t)
    /\ rec.at - rec.before.ledger[t] < archiveThresholdMs(rec.settings)

C20_ArmedWithRemainingTime ==
    \A rec \in ReturnsOf("startArchiveTimer") :
        (/\ EligibleApartFromTime(rec.id)
         /\ archiveThresholdMs(rec.settings) - (rec.at - tabLastActiveTimes[rec.id]) >= 1000)
        => \E a \in AlarmsOf(alarms, rec.id) :
             a.scheduledTime - rec.at
                 = archiveThresholdMs(rec.settings) - (rec.at - tabLastActiveTimes[rec.id])

\* C21: when startArchiveTimer returns, having found the tab eligible: if the
\* remaining delay was below the granularity (0.016 minutes), it has run archiveTab
\* (whose cleanup leaves no ledger entry) and left no timer; if the remaining delay
\* is at or above the granularity, it has created the timer and not run archiveTab.
C21_ArchiveNowOrArm ==
    \A rec \in ReturnsOf("startArchiveTimer") :
        /\ rec.outcome = "archived" => (rec.timers = {} /\ ~rec.hasEntry)
        /\ (/\ EligibleApartFromTime(rec.id)
            /\ ~dueImmediately(remainingDelayMs(TRUE, tabLastActiveTimes[rec.id],
                                                 rec.settings, rec.at)))
           => (rec.outcome = "armed" /\ rec.timers # {})

\* Tab t is one startArchiveTimer is to leave without a timer: it is effectively
\* active, or pinned, in a group, or excluded as incognito.
NotToBeArmed(t, settings) ==
    /\ t \in DOMAIN tabs /\ tabs[t].status # "none"
    /\ \/ EffectivelyActiveNow(Browser, t)
       \/ tabs[t].pinned
       \/ tabs[t].groupId # TAB_GROUP_ID_NONE
       \/ (tabs[t].windowId \in IncognitoWindows /\ ~settings.archiveInIncognito)

C23_SwitchedOffDoesNothing ==
    /\ \A rec \in ReturnsOf("startArchiveTimer") :
          (~rec.settings.autoArchiveEnabled \/ rec.id = TAB_ID_NONE)
          => (rec.calls = 0 /\ rec.ledgerKept /\ rec.timersKept)
    /\ \A rec \in ReturnsOf("sortTabsInWindow") :
          ~rec.settings.tabSortingEnabled
          => (rec.calls = 0 /\ rec.seen = <<>> /\ rec.moves = <<>>)

\* startArchiveTimer returns from a call for TAB_ID_NONE made with auto-archive
\* on, while a timer is outstanding and the ledger has entries.
C23_ReturnedForSentinel ==
    \E rec \in ReturnsOf("startArchiveTimer") :
        /\ rec.id = TAB_ID_NONE /\ rec.settings.autoArchiveEnabled
        /\ alarms # {} /\ tabLastActiveTimes # << >>

Archiving ==
    /\ tasks # <<>>
    /\ \E i \in DOMAIN tasks[1].agenda : tasks[1].agenda[i].fn = "archiveTab"

\* C25: no archiveTab invocation issues a sixth chrome.tabs.remove, and every
\* invocation returns, also when each chrome.tabs.remove fails with the drag/edit
\* lock.
C25_ArchiveTabTerminates ==
    /\ [](obs.call.api = "tabs.remove" => obs.call.attempt <= 5)
    /\ Archiving ~> (ReturnsOf("archiveTab") # {})

\* archiveTab returns after five chrome.tabs.remove calls that all failed with the
\* drag/edit lock.
C25_ReturnedAfterFiveLocks ==
    \E rec \in ReturnsOf("archiveTab") :
        rec.outcome = "lockExhausted" /\ rec.attempts = 5 /\ rec.open

\* The position of the tab with identifier id in the sequence of tabs ts, 0 if none.
PlaceOf(ts, id) ==
    IF \E i \in DOMAIN ts : ts[i].id = id THEN CHOOSE i \in DOMAIN ts : ts[i].id = id ELSE 0

\* The chrome.tabs.move calls of the pass rec for tab id, in the order made.
AttemptsOn(rec, id) ==
    LET ForId(mv) == mv.id = id IN SelectSeq(rec.moves, ForId)

\* The pass rec made one run of move calls per misplaced tab, in the order of the
\* tabs; a run has at most 100 calls, each but the last refused with the transient
\* error, and a run that ends with that error has 100 calls.
OneBoundedRunEach(rec) ==
    LET plan == relocationPlan(rec.seen).toRelocate
    IN  /\ \A j \in DOMAIN rec.moves : PlaceOf(plan, rec.moves[j].id) > 0
        /\ \A j, k \in DOMAIN rec.moves :
               j < k => PlaceOf(plan, rec.moves[j].id) <= PlaceOf(plan, rec.moves[k].id)
        /\ \A i \in DOMAIN plan :
               LET a == AttemptsOn(rec, plan[i].id)
               IN  /\ Len(a) >= 1
                   /\ Len(a) <= 100
                   /\ \A j \in 1..(Len(a) - 1) : a[j].result = "lock"
                   /\ a[Len(a)].result = "lock" => Len(a) = 100

\* sortTabsInWindow is in its loop over the misplaced tabs (l.377-410).
Relocating ==
    /\ tasks # <<>> /\ tasks[1].agenda # <<>>
    /\ tasks[1].agenda[1].fn = "sortTabsInWindow" /\ tasks[1].agenda[1].pc = "loop"

\* The chrome.tabs.move calls the loop can still make: 100 for each tab it has not
\* finished with, less the retries of the move in progress.
MovesLeft ==
    IF Relocating
    THEN 100 * Len(tasks[1].agenda[1].list) - tasks[1].agenda[1].n
    ELSE 0

\* C26: a pass of sortTabsInWindow calls chrome.tabs.move for each misplaced tab in
\* turn: at most 100 times for a tab, again only after the transient error, and
\* after any other error or the 100th refusal it goes on to the next tab.  The pass
\* ends: every step of its loop lowers the number of calls it can still make, which
\* is never negative, and with none left the pass returns.
C26_EveryViolatorTriedAtMost100 ==
    /\ [](\A rec \in ReturnsOf("sortTabsInWindow") :
              rec.settings.tabSortingEnabled => OneBoundedRunEach(rec))
    /\ [](MovesLeft >= 0)
    /\ [][Relocating => IF MovesLeft = 0 THEN ReturnsOf("sortTabsInWindow")' # {}
                        ELSE Relocating' /\ MovesLeft' < MovesLeft]_vars

\* A pass has returned that gave up the first misplaced tab after 100 refusals and
\* moved the second at the second attempt.
C26_GaveUpFirstMovedSecond ==
    \E rec \in ReturnsOf("sortTabsInWindow") :
        LET plan == relocationPlan(rec.seen).toRelocate
        IN  /\ Len(plan) = 2
            /\ Len(AttemptsOn(rec, plan[1].id)) = 100
            /\ AttemptsOn(rec, plan[1].id)[100].result = "lock"
            /\ Len(AttemptsOn(rec, plan[2].id)) = 2
            /\ AttemptsOn(rec, plan[2].id)[2].result = "ok"

\* Tab a is left of tab b among the tab objects ts.
LeftOf(ts, a, b) == TabOf(ts, a).index < TabOf(ts, b).index

\* C27: when sortTabsInWindow returns and every chrome.tabs.move it made succeeded,
\* the tabs it moved are in the order among themselves they were in before, and so
\* are the grouped tabs.
C27_MovedTabsKeepTheirOrder ==
    \A rec \in ReturnsOf("sortTabsInWindow") :
        (rec.settings.tabSortingEnabled /\ AllMovesDone(rec))
        => LET moved   == {rec.moves[k].id : k \in DOMAIN rec.moves}
               grouped == {rec.seen[i].id : i \in {j \in DOMAIN rec.seen :
                                                      ~rec.seen[j].pinned /\ IsGrouped(rec.seen[j])}}
           IN  /\ \A a, b \in moved : LeftOf(rec.seen, a, b) <=> LeftOf(rec.after, a, b)
               /\ \A a, b \in grouped : LeftOf(rec.seen, a, b) <=> LeftOf(rec.after, a, b)

\* sortTabsInWindow returns having moved two tabs, at the first attempt each, from
\* in front of two grouped tabs.
C27_MovedTwoPastTwo ==
    \E rec \in ReturnsOf("sortTabsInWindow") :
        /\ Len(rec.moves) = 2 /\ AllMovesDone(rec)
        /\ rec.moves[1].id # rec.moves[2].id
        /\ Cardinality({i \in DOMAIN rec.seen : IsGrouped(rec.seen[i])}) = 2

\* The pass rec moved every tab it set out to move: the last chrome.tabs.move call
\* for each of them succeeded.
EveryTabMoved(rec) ==
    LET plan == relocationPlan(rec.seen).toRelocate
    IN  \A i \in DOMAIN plan :
           LET a == AttemptsOn(rec, plan[i].id)
           IN  a # <<>> /\ a[Len(a)].result = "ok"

\* The call of sortTabsInWindow that returned rec was the second of the two; it had
\* been given the window as the first call, which returned first, left it, and it
\* called chrome.tabs.query and nothing else.
SecondPassIdle(rec, first) ==
    /\ rec.fn = "sortTabsInWindow" /\ rec.mode = "again"
    /\ rec.seen = first.after
    /\ rec.moves = <<>> /\ rec.calls = 1

\* C28: when the first of two calls of sortTabsInWindow in a row returns, having
\* moved every tab it set out to move, the second call issues no chrome.tabs.move:
\* it returns in the same step of the event loop, or, when the first call returned
\* on the answer to its query, in the next.
C28_SecondPassMovesNothing ==
    [][\A i \in DOMAIN obs.ret :
          (/\ obs.ret[i].fn = "sortTabsInWindow" /\ obs.ret[i].mode = "first"
           /\ obs.ret[i].settings.tabSortingEnabled
           /\ EveryTabMoved(obs.ret[i]))
          => \/ /\ i < Len(obs.ret)
                /\ SecondPassIdle(obs.ret[i + 1], obs.ret[i])
             \/ /\ i = Len(obs.ret) /\ obs.ret[i].moves = <<>>
                /\ obs'.ret # <<>>
                /\ SecondPassIdle(obs'.ret[1], obs.ret[i])]_vars

\* The first call moved two tabs, one of them at the second attempt, and the second
\* call has returned.
C28_SecondPassAfterTwoMoves ==
    /\ Len(obs.ret) = 2
    /\ obs.ret[1].fn = "sortTabsInWindow" /\ obs.ret[1].mode = "first"
    /\ Len(obs.ret[1].moves) = 3 /\ EveryTabMoved(obs.ret[1])
    /\ Len(relocationPlan(obs.ret[1].seen).toRelocate) = 2
    /\ obs.ret[2].fn = "sortTabsInWindow" /\ obs.ret[2].mode = "again"

\* C29: under every interleaving, once a tab is closed and handleTabRemoved and
\* every other handler invocation have run to their end, tabLastActiveTimes has no
\* entry for the tab and no alarm is listed for it.
C29_NothingLeftOfClosedTab ==
    \A t \in Tabs :
        (tabs[t].status = "closed" /\ tasks = <<>>)
        => (~LedgerHas(tabLastActiveTimes, t) /\ AlarmsOf(alarms, t) = {})

\* C30: when handleTabActivated returns for tab t of window w, no other handler
\* having run meanwhile: tabLastActiveTimes has for t the time at which the handler
\* started, no alarm is listed for t, startArchiveTimer was called for every tab
\* that w had other than its active tab, and no other tab has got an entry or a new
\* time in tabLastActiveTimes.
C30_ActivatedTouchedOthersStarted ==
    \A rec \in ReturnsOf("handleTabActivated") :
        /\ LedgerHas(rec.ledger, rec.id) /\ rec.ledger[rec.id] = rec.before.at
        /\ rec.timers = {}
        /\ rec.started = SeqWithout(rec.before.order[rec.w], active[rec.w])
        /\ \A u \in DOMAIN rec.ledger \ {rec.id} :
               LedgerHas(rec.before.ledger, u) /\ rec.ledger[u] = rec.before.ledger[u]

\* handleTabActivated returns after the clock has advanced: it has called
\* startArchiveTimer for another tab, which has an older entry.
C30_ReturnedWithOlderNeighbour ==
    \E rec \in ReturnsOf("handleTabActivated") :
        /\ rec.started # <<>> /\ active[rec.w] = rec.id
        /\ rec.before.at > StartMs
        /\ \E u \in DOMAIN rec.ledger \ {rec.id} : rec.ledger[u] < rec.before.at

\* C31: when handleTabCreated has recorded the time of the created tab: if the tab
\* counted as effectively active, its entry is the current time and the handler goes
\* on to cancelArchiveTimer; if not, an entry the tab had keeps its time, a tab
\* without entry gets the current time, and the handler goes on to
\* startArchiveTimer; in both cases sortTabsInWindow for the tab's window follows.
C31_CreatedTouchedIfAbsent ==
    \A rec \in ReturnsOf("handleTabCreated") :
        /\ LedgerHas(rec.ledger, rec.id)
        /\ rec.ledger[rec.id] = IF ~rec.eff /\ LedgerHas(rec.before.ledger, rec.id)
                                THEN rec.before.ledger[rec.id]
                                ELSE rec.at
        /\ Len(rec.next) = 2
        /\ rec.next[1].fn = (IF rec.eff THEN "cancelArchiveTimer" ELSE "startArchiveTimer")
        /\ rec.next[1].id = rec.id
        /\ rec.next[2].fn = "sortTabsInWindow" /\ rec.next[2].w = rec.w

\* The tabs the re-run rec of initialTabScan found open.
ScannedTabs(rec) == UNION {{rec.before.order[w][i] : i \in DOMAIN rec.before.order[w]} : w \in Windows}

\* Time t lies within the run rec of initialTabScan.
DuringScan(rec, t) == rec.before.at <= t /\ t <= rec.at

\* C32 as stated: when a run of initialTabScan returns that no other handler
\* interleaved with, the effectively active tab has the time of the scan as its
\* entry and no alarm; every other tab that had no entry has the time of the scan
\* as its entry; every other tab that had an entry and is still open has the entry
\* it had.
C32_ScanSetsTimes ==
    \A rec \in ReturnsOf("initialTabScan") :
        rec.mode = "again"
        => \A t \in ScannedTabs(rec) :
              IF EffectivelyActiveNow(Browser, t)
              THEN /\ LedgerHas(rec.ledger, t) /\ DuringScan(rec, rec.ledger[t])
                   /\ AlarmsOf(rec.alarms, t) = {}
              ELSE IF ~LedgerHas(rec.before.ledger, t)
              THEN LedgerHas(rec.ledger, t) /\ DuringScan(rec, rec.ledger[t])
              ELSE IsOpen(Browser, t)
                   => (LedgerHas(rec.ledger, t) /\ rec.ledger[t] = rec.before.ledger[t])


\* The two calls of PairSpec have both run to their end.
BothCompleted == \A k \in 1..Len(tasks) : tasks[k].h \notin Primitives

\* The first event called f1(id), the event after it f2(id).
MadeInOrder(f1, f2, id) ==
    /\ budget.made[1] = [fn |-> f1, id |-> id]
    /\ budget.made[2] = [fn |-> f2, id |-> id]

\* C33: when cancelArchiveTimer(id) is called by the event after the one that called
\* startArchiveTimer(id), no alarm for id is outstanding once both calls have
\* completed, however the two interleave at the awaits of startArchiveTimer.
C33_DisarmAfterArmLeavesNoTimer ==
    \A id \in Tabs :
        MadeInOrder("startArchiveTimer", "cancelArchiveTimer", id) /\ BothCompleted
        => AlarmsOf(alarms, id) = {}

\* startArchiveTimer(id) found an alarm of id outstanding, was overtaken by the
\* cancelArchiveTimer(id) called after it, and returns last, the tab not being due.
C33_ArmReturnedAfterDisarm ==
    \E rec \in ReturnsOf("startArchiveTimer") :
        /\ MadeInOrder("startArchiveTimer", "cancelArchiveTimer", rec.id)
        /\ BothCompleted
        /\ rec.outcome = "ineligible"
        /\ rec.hadTimer
        /\ rec.hasEntry
        /\ rec.calls >= 2

\* C34 as stated: when two calls of startArchiveTimer(id) overlap, then after both
\* have completed the alarm outstanding for id is the one the later call created:
\* for a tab that is eligible but for its inactive time, which is short of the
\* threshold, there is one alarm, due when the threshold is reached.
C34_LaterArmWins ==
    \A id \in Tabs :
        /\ MadeInOrder("startArchiveTimer", "startArchiveTimer", id)
        /\ BothCompleted
        /\ EligibleApartFromTime(id)
        /\ now - tabLastActiveTimes[id] < archiveThresholdMs(currentSettings)
        => AlarmsOf(alarms, id) =
              {[name |-> getAlarmName(id),
                scheduledTime |-> tabLastActiveTimes[id] + archiveThresholdMs(currentSettings)]}

\* Frame f is the processing of one tab of a batch that has not begun, or the
\* reordering of one window that has not begun.
BatchItem(f) ==
    \/ f.fn \in {"startArchiveTimer", "sortTabsInWindow"} /\ f.pc = "entry"
    \/ f.fn \in {"initialTabScan", "handleWindowFocusChanged"} /\ f.pc = "tab"

\* The last step issued a chrome.* call that failed.
CallFailed(o) == o.call.result \in {"lock", "error"}

\* C35 as stated: when a chrome.* call fails while one tab of a batch is processed,
\* the tabs after it in the batch are still to be processed and, in the scan, the
\* windows are still to be reordered.
C35_FailureKeepsRestOfBatch ==
    [][tasks # <<>> /\ CallFailed(obs')
       => \A i \in 2..Len(tasks[1].agenda) :
             BatchItem(tasks[1].agenda[i])
             => /\ tasks' # <<>>
                /\ \E j \in 1..Len(tasks'[1].agenda) : tasks'[1].agenda[j] = tasks[1].agenda[i]]_vars

\* C36 as stated: an archiveTab that fails or is abandoned while the tab still
\* exists (removal error, retries exhausted, tab not eligible when the alarm fires)
\* leaves the tab its ledger entry, so that it is evaluated again later.
C36_FailedEvictionKeepsEntry ==
    \A rec \in ReturnsOf("archiveTab") :
        rec.outcome \in {"error", "lockExhausted", "ineligible"} /\ rec.open
        => rec.hasEntry

\* What the core keeps about tab j, and whether the browser still has it.
TrackingOf(l, al, b, j) ==
    [entry |-> IF LedgerHas(l, j) THEN <<l[j]>> ELSE <<>>,
     timers |-> AlarmsOf(al, j),
     status |-> b[j].status]

\* C37: a step of updateTabLastActiveTime(i), startArchiveTimer(i),
\* cancelArchiveTimer(i) or archiveTab(i) leaves the ledger entry and the alarm of
\* every other tab j as they are, and does not call chrome.tabs.remove(j).
C37_PrimitivesLeaveOtherTabsAlone ==
    [][\A k \in 1..MaxInFlight, r \in Results :
          (k <= Len(tasks) /\ tasks[k].h \in Primitives /\ PairResume(k, r))
          => \A j \in Tabs \ {tasks[k].agenda[1].id} :
                /\ TrackingOf(tabLastActiveTimes', alarms', tabs', j)
                     = TrackingOf(tabLastActiveTimes, alarms, tabs, j)
                /\ ~(obs'.call.api = "tabs.remove" /\ obs'.call.id = j)]_vars

\* archiveTab(i) has removed tab i and returns, while another tab has its ledger
\* entry and its alarm.
C37_RemovedNextToTrackedTab ==
    \E rec \in ReturnsOf("archiveTab") :
        /\ rec.outcome = "removed"
        /\ \E j \in Tabs \ {rec.id} :
              /\ IsOpen(Browser, j)
              /\ LedgerHas(tabLastActiveTimes, j)
              /\ AlarmsOf(alarms, j) # {}
====
